---- MODULE Spec2Model ----
(***************************************************************************)
(* Edge routing engine of maxGraph (packages/core/src/view/style/          *)
(* EdgeStyle.ts): the connector strategies EntityRelation, Loop,           *)
(* ElbowConnector, SideToSide, TopToBottom, SegmentConnector,              *)
(* OrthConnector and ManhattanConnector.                                   *)
(*                                                                         *)
(* Numbers.  The code rounds every coordinate it emits to one decimal      *)
(* place (Math.round(v * 10) / 10), so a coordinate is modelled as an      *)
(* integer number of tenths: the point (12.5, 3) is <<125, 30>>.  A        *)
(* nullable point is a tuple, Null == << >> for null / undefined.  A       *)
(* nullable CellState is a record with the flag isNull.                    *)
(***************************************************************************)
EXTENDS Integers, Sequences, FiniteSets, TLC

\* one unit in tenths: the factor of Math.round(v * 10) / 10
Tenth == 10

Null == << >>

Abs(v) == IF v < 0 THEN -v ELSE v
Max(a, b) == IF a >= b THEN a ELSE b
Min(a, b) == IF a <= b THEN a ELSE b

\* Math.round(n / d) for d > 0: halves go towards +Infinity
Round(n, d) == (2 * n + d) \div (2 * d)

\* v / 2 (all halved quantities of the model are even numbers of tenths
\* or end in .05, which the inputs avoid)
Half(v) == v \div 2

\* Math.round((v / scale) * 10) / 10, v in tenths
ScaleDown(v, scale) == Round(v, scale)

\* Math.round(v * scale * 10) / 10, v in tenths
ScaleUp(v, scale) == Round(v * scale, 1)

Pt(x, y) == <<x, y>>

(***************************************************************************)
(* Constants of util/Constants.ts                                          *)
(***************************************************************************)
DIRECTION_MASK_NONE == 0
DIRECTION_MASK_WEST == 1
DIRECTION_MASK_NORTH == 2
DIRECTION_MASK_SOUTH == 4
DIRECTION_MASK_EAST == 8
DIRECTION_MASK_ALL == 15
ENTITY_SEGMENT == 30
DEFAULT_MARKERSIZE == 6
\* Graph.gridSize default
gridSize == 10

\* a style value that is not set
Unset == -1
\* the style value 'auto' of the jetty sizes
Auto == -2

\* getValue(style, key, defaultValue)
getValue(v, default) == IF v = Unset THEN default ELSE v

(***************************************************************************)
(* CellState (a Rectangle with a cell and a style)                         *)
(***************************************************************************)
NullState ==
  [isNull |-> TRUE, x |-> 0, y |-> 0, width |-> 0, height |-> 0,
   isEdge |-> FALSE, relative |-> FALSE, relLeft |-> FALSE,
   portConstraint |-> Unset]

\* a vertex state with absolute geometry and no port constraint
Vertex(x, y, w, h) ==
  [isNull |-> FALSE, x |-> x, y |-> y, width |-> w, height |-> h,
   isEdge |-> FALSE, relative |-> FALSE, relLeft |-> FALSE,
   portConstraint |-> Unset]

\* source = new CellState(); source.x = p.x; source.y = p.y
PointState(p) == Vertex(p[1], p[2], 0, 0)

\* mathUtils.contains(bounds, x, y)
contains(b, x, y) ==
  /\ b.x <= x
  /\ b.x + b.width >= x
  /\ b.y <= y
  /\ b.y + b.height >= y

\* mathUtils.getPortConstraints(terminal, edge, source, defaultValue)
getPortConstraints(terminal, default) ==
  IF terminal.portConstraint = Unset THEN default ELSE terminal.portConstraint

\* GraphView.getRoutingCenterX / getRoutingCenterY (no routingCenter style)
getRoutingCenterX(s) == s.x + Half(s.width)
getRoutingCenterY(s) == s.y + Half(s.height)

\* GraphView.transformControlPoint(state, pt, ignoreScale); the edge
\* state's origin is (0, 0)
transformControlPoint(inp, pt, ignoreScale) ==
  LET s == IF ignoreScale THEN 1 ELSE inp.scale
  IN Pt(s * (pt[1] + inp.tr[1]), s * (pt[2] + inp.tr[2]))

\* Op applied to the value of v: the body Op reads a value that the code
\* computes once and keeps in a local variable
With(v, Op(_)) == Op(v)

\* what a connector call leaves behind: the result array, and whether the
\* call ended in a thrown TypeError
Returned(res) == [res |-> res, threw |-> FALSE]
Thrown(res) == [res |-> res, threw |-> TRUE]

(***************************************************************************)
(* EdgeStyle.EntityRelation                                                *)
(***************************************************************************)
EntityRelation_jogOnSameSide(inp, result) ==
  LET segment == getValue(inp.segment, ENTITY_SEGMENT * Tenth) * inp.scale
      source == IF inp.p0 # Null THEN PointState(inp.p0) ELSE inp.source
      target == IF inp.pe # Null THEN PointState(inp.pe) ELSE inp.target
      y0 == getRoutingCenterY(source)
      ye == getRoutingCenterY(target)
      dep == Pt(source.x + source.width + segment, y0)
      arr == Pt(target.x + target.width + segment, ye)
      midY == y0 + Half(ye - y0)
  IN (IF source.isNull \/ target.isNull THEN Returned(result)
      ELSE Returned(result \o <<dep, Pt(dep[1], midY), Pt(arr[1], midY), arr>>))
       @@ [isSourceLeft |-> FALSE, isTargetLeft |-> FALSE, dep |-> dep, arr |-> arr]

\* the outcome carries the sides and the departure and arrival points that
\* the call computed
EntityRelation(inp, result) ==
  LET segment == getValue(inp.segment, ENTITY_SEGMENT * Tenth) * inp.scale
      p0 == inp.p0
      pe == inp.pe
      source0 == inp.source
      target0 == inp.target
      isSourceLeft0 ==
        IF source0.isNull THEN FALSE
        ELSE IF source0.relative THEN source0.relLeft
        ELSE IF ~target0.isNull
          THEN (IF pe # Null THEN pe[1] ELSE target0.x + target0.width)
                 < (IF p0 # Null THEN p0[1] ELSE source0.x)
          ELSE FALSE
      sConstraint == getPortConstraints(source0, DIRECTION_MASK_NONE)
      isSourceLeft ==
        IF p0 = Null /\ ~source0.isNull
           /\ sConstraint # DIRECTION_MASK_NONE
           /\ sConstraint # DIRECTION_MASK_WEST + DIRECTION_MASK_EAST
        THEN sConstraint = DIRECTION_MASK_WEST
        ELSE isSourceLeft0
      source == IF p0 # Null THEN PointState(p0) ELSE source0
      isTargetLeft0 ==
        IF target0.isNull THEN TRUE
        ELSE IF target0.relative THEN target0.relLeft
        ELSE IF ~source.isNull
          THEN (IF p0 # Null THEN p0[1] ELSE source.x + source.width)
                 < (IF pe # Null THEN pe[1] ELSE target0.x)
          ELSE TRUE
      tConstraint == getPortConstraints(target0, DIRECTION_MASK_NONE)
      isTargetLeft ==
        IF pe = Null /\ ~target0.isNull
           /\ tConstraint # DIRECTION_MASK_NONE
           /\ tConstraint # DIRECTION_MASK_WEST + DIRECTION_MASK_EAST
        THEN tConstraint = DIRECTION_MASK_WEST
        ELSE isTargetLeft0
      target == IF pe # Null THEN PointState(pe) ELSE target0
      x0 == IF isSourceLeft THEN source.x ELSE source.x + source.width
      y0 == getRoutingCenterY(source)
      xe == IF isTargetLeft THEN target.x ELSE target.x + target.width
      ye == getRoutingCenterY(target)
      dep == Pt(x0 + (IF isSourceLeft THEN -segment ELSE segment), y0)
      arr == Pt(xe + (IF isTargetLeft THEN -segment ELSE segment), ye)
      x == IF isSourceLeft THEN Min(x0, xe) - segment ELSE Max(x0, xe) + segment
      midY == y0 + Half(ye - y0)
  IN (IF p0 = Null /\ source0.isNull THEN Returned(result)
      ELSE IF source.isNull \/ target.isNull THEN Returned(result)
      ELSE IF isSourceLeft = isTargetLeft
        THEN Returned(result \o <<Pt(x, y0), Pt(x, ye)>>)
      ELSE IF (dep[1] < arr[1]) = isSourceLeft
        THEN Returned(result \o <<dep, Pt(dep[1], midY), Pt(arr[1], midY), arr>>)
      ELSE Returned(result \o <<dep, arr>>))
       @@ [isSourceLeft |-> isSourceLeft, isTargetLeft |-> isTargetLeft,
           dep |-> dep, arr |-> arr]

(***************************************************************************)
(* EdgeStyle.Loop                                                          *)
(***************************************************************************)
transformAll_firstOnly(inp, points) ==
  IF points = << >> THEN << >>
  ELSE <<transformControlPoint(inp, Head(points), FALSE)>>

RECURSIVE transformAll(_, _)
transformAll(inp, points) ==
  IF points = << >> THEN << >>
  ELSE <<transformControlPoint(inp, Head(points), FALSE)>>
         \o transformAll(inp, Tail(points))

Loop_ignoresDirection(inp, result) ==
  LET seg == getValue(inp.segment, gridSize * Tenth) * inp.scale
      x == inp.source.x + inp.source.width + 2 * seg
      y == getRoutingCenterY(inp.source)
  IN Returned(result \o <<Pt(x, y - seg), Pt(x, y + seg)>>)

Loop(inp, result) ==
  LET p0 == inp.p0
      pe == inp.pe
      points == inp.hints
      source == inp.source
      pt0 == IF Len(points) > 0
               THEN transformControlPoint(inp, points[1], FALSE) ELSE Null
      pt == IF pt0 # Null /\ contains(source, pt0[1], pt0[2]) THEN Null ELSE pt0
      seg == getValue(inp.segment, gridSize * Tenth) * inp.scale
      \* getValue(state.style, 'direction', DIRECTION.WEST); "" is unset
      dir == IF inp.direction = "" THEN "west" ELSE inp.direction
      vertical == dir = "north" \/ dir = "south"
      x1 == IF vertical THEN getRoutingCenterX(source) ELSE 0
      dx1 == IF vertical THEN seg ELSE 0
      y1 == IF vertical THEN 0 ELSE getRoutingCenterY(source)
      dy1 == IF vertical THEN 0 ELSE seg
      outside == pt = Null \/ pt[1] < source.x \/ pt[1] > source.x + source.width
      x == IF outside
             THEN (IF pt # Null THEN pt[1]
                   ELSE IF dir = "north" \/ dir = "south" THEN x1
                   ELSE IF dir = "east" THEN source.x - 2 * dy1
                   ELSE source.x + source.width + 2 * dy1)
             ELSE getRoutingCenterX(source)
      y == IF outside
             THEN (IF pt # Null THEN y1
                   ELSE IF dir = "north" THEN source.y - 2 * dx1
                   ELSE IF dir = "south" THEN source.y + source.height + 2 * dx1
                   ELSE y1)
             ELSE pt[2]
      dx == IF outside THEN dx1 ELSE Max(Abs(x - pt[1]), dy1)
      dy == IF outside
              THEN (IF pt # Null THEN Max(Abs(y1 - pt[2]), dy1) ELSE dy1)
              ELSE 0
  IN IF p0 # Null /\ pe # Null
       THEN Returned(result \o transformAll(inp, points))
     ELSE IF source.isNull THEN Returned(result)
     ELSE Returned(result \o <<Pt(x - dx, y - dy), Pt(x + dx, y + dy)>>)

(***************************************************************************)
(* EdgeStyle.SideToSide                                                    *)
(***************************************************************************)
SideToSide(inp, result) ==
  LET pt == IF Len(inp.hints) > 0
              THEN transformControlPoint(inp, inp.hints[1], FALSE) ELSE Null
      source == IF inp.p0 # Null THEN PointState(inp.p0) ELSE inp.source
      target == IF inp.pe # Null THEN PointState(inp.pe) ELSE inp.target
      l == Max(source.x, target.x)
      r == Min(source.x + source.width, target.x + target.width)
      \* Math.round(r + (l - r) / 2) is a whole number of units
      x == IF pt # Null THEN pt[1] ELSE Tenth * Round(r + l, 2 * Tenth)
      y1 == IF pt # Null /\ pt[2] >= source.y /\ pt[2] <= source.y + source.height
              THEN pt[2] ELSE getRoutingCenterY(source)
      y2 == IF pt # Null /\ pt[2] >= target.y /\ pt[2] <= target.y + target.height
              THEN pt[2] ELSE getRoutingCenterY(target)
      r1 == IF ~contains(target, x, y1) /\ ~contains(source, x, y1)
              THEN Append(result, Pt(x, y1)) ELSE result
      r2 == IF ~contains(target, x, y2) /\ ~contains(source, x, y2)
              THEN Append(r1, Pt(x, y2)) ELSE r1
      t == Max(source.y, target.y)
      b == Min(source.y + source.height, target.y + target.height)
      r3 == IF Len(r2) = 1
              THEN (IF pt # Null
                      THEN (IF ~contains(target, x, pt[2]) /\ ~contains(source, x, pt[2])
                              THEN Append(r2, Pt(x, pt[2])) ELSE r2)
                      ELSE Append(r2, Pt(x, t + Half(b - t))))
              ELSE r2
  IN IF source.isNull \/ target.isNull THEN Returned(result) ELSE Returned(r3)

(***************************************************************************)
(* EdgeStyle.TopToBottom                                                   *)
(***************************************************************************)
TopToBottom(inp, result) ==
  LET pt == IF Len(inp.hints) > 0
              THEN transformControlPoint(inp, inp.hints[1], FALSE) ELSE Null
      source == IF inp.p0 # Null THEN PointState(inp.p0) ELSE inp.source
      target == IF inp.pe # Null THEN PointState(inp.pe) ELSE inp.target
      t == Max(source.y, target.y)
      b == Min(source.y + source.height, target.y + target.height)
      xa == IF pt # Null /\ pt[1] >= source.x /\ pt[1] <= source.x + source.width
              THEN pt[1] ELSE getRoutingCenterX(source)
      \* Math.round(b + (t - b) / 2) is a whole number of units
      y == IF pt # Null THEN pt[2] ELSE Tenth * Round(b + t, 2 * Tenth)
      r1 == IF ~contains(target, xa, y) /\ ~contains(source, xa, y)
              THEN Append(result, Pt(xa, y)) ELSE result
      xb == IF pt # Null /\ pt[1] >= target.x /\ pt[1] <= target.x + target.width
              THEN pt[1] ELSE getRoutingCenterX(target)
      r2 == IF ~contains(target, xb, y) /\ ~contains(source, xb, y)
              THEN Append(r1, Pt(xb, y)) ELSE r1
      l == Max(source.x, target.x)
      r == Min(source.x + source.width, target.x + target.width)
      r3 == IF Len(r2) = 1
              THEN (IF pt # Null
                      THEN (IF ~contains(target, pt[1], y) /\ ~contains(source, pt[1], y)
                              THEN Append(r2, Pt(pt[1], y)) ELSE r2)
                      ELSE Append(r2, Pt(l + Half(r - l), y)))
              ELSE r2
  IN IF source.isNull \/ target.isNull THEN Returned(result) ELSE Returned(r3)

(***************************************************************************)
(* EdgeStyle.ElbowConnector                                                *)
(***************************************************************************)
ElbowConnector(inp, result) ==
  LET source == inp.source
      target == inp.target
      both == ~source.isNull /\ ~target.isNull
      pt == IF Len(inp.hints) > 0
              THEN transformControlPoint(inp, inp.hints[1], FALSE) ELSE Null
      top == Min(source.y, target.y)
      bottom == Max(source.y + source.height, target.y + target.height)
      left == Min(source.x, target.x)
      right == Max(source.x + source.width, target.x + target.width)
      ileft == Max(source.x, target.x)
      iright == Min(source.x + source.width, target.x + target.width)
      itop == Max(source.y, target.y)
      ibottom == Min(source.y + source.height, target.y + target.height)
      vertical ==
        IF ~both THEN FALSE
        ELSE IF pt # Null THEN pt[2] < top \/ pt[2] > bottom
        ELSE ileft = iright
      horizontal ==
        IF ~both THEN FALSE
        ELSE IF pt # Null THEN pt[1] < left \/ pt[1] > right
        ELSE IF ~vertical THEN itop = ibottom
        ELSE FALSE
  IN IF ~horizontal /\ (vertical \/ inp.elbow = "vertical")
       THEN TopToBottom(inp, result)
       ELSE SideToSide(inp, result)

(***************************************************************************)
(* EdgeStyle.scalePointArray / scaleCellState                              *)
(***************************************************************************)
scalePoint(p, scale) ==
  IF p = Null THEN Null ELSE Pt(ScaleDown(p[1], scale), ScaleDown(p[2], scale))

scaleCellState(s, scale) ==
  IF s.isNull THEN s
  ELSE [s EXCEPT !.x = ScaleDown(s.x, scale), !.y = ScaleDown(s.y, scale),
                 !.width = ScaleDown(s.width, scale),
                 !.height = ScaleDown(s.height, scale)]

(***************************************************************************)
(* EdgeStyle.SegmentConnector                                              *)
(***************************************************************************)
\* const tol = 1
tol == 1 * Tenth

RemoveAt(seq, i) == SubSeq(seq, 1, i - 1) \o SubSeq(seq, i + 1, Len(seq))

pushPoint_always(st, pt, scale) ==
  LET p == Pt(ScaleUp(pt[1], scale), ScaleUp(pt[2], scale))
  IN [res |-> Append(st.res, p), last |-> p]

\* st = [res, last]: the result array and lastPushed
pushPoint(st, pt, scale) ==
  LET p == Pt(ScaleUp(pt[1], scale), ScaleUp(pt[2], scale))
  IN IF \/ st.last = Null
        \/ Abs(st.last[1] - p[1]) >= tol
        \/ Abs(st.last[2] - p[2]) >= Max(1 * Tenth, scale * Tenth)
       THEN [res |-> Append(st.res, p), last |-> p]
       ELSE st

\* hints[k].x / .y aligned to a fixed point that is closer than tol
alignHint(h, p) ==
  IF p = Null THEN h
  ELSE Pt(IF Abs(h[1] - p[1]) < tol THEN p[1] ELSE h[1],
          IF Abs(h[2] - p[2]) < tol THEN p[2] ELSE h[2])

RECURSIVE transformHints(_, _)
transformHints(inp, points) ==
  IF points = << >> THEN << >>
  ELSE <<transformControlPoint(inp, Head(points), TRUE)>>
         \o transformHints(inp, Tail(points))

\* one round of the loop "for (let i = 0; i < 2; i += 1)" that works out
\* the orientation of the first segment
segmentOrientation(i, currentTerm, currentPt, currentHint, hints, horizontal) ==
  LET fixedVertAlign == currentPt # Null /\ currentPt[1] = currentHint[1]
      fixedHozAlign == currentPt # Null /\ currentPt[2] = currentHint[2]
      inHozChan == /\ ~currentTerm.isNull
                   /\ currentHint[2] >= currentTerm.y
                   /\ currentHint[2] <= currentTerm.y + currentTerm.height
      inVertChan == /\ ~currentTerm.isNull
                    /\ currentHint[1] >= currentTerm.x
                    /\ currentHint[1] <= currentTerm.x + currentTerm.width
      hozChan == fixedHozAlign \/ (currentPt = Null /\ inHozChan)
      vertChan == fixedVertAlign \/ (currentPt = Null /\ inVertChan)
      ignore == i = 0 /\ ((hozChan /\ vertChan) \/ (fixedVertAlign /\ fixedHozAlign))
  IN IF ~ignore /\ currentPt # Null /\ ~fixedHozAlign /\ ~fixedVertAlign
        /\ (inHozChan \/ inVertChan)
       THEN [brk |-> TRUE, horizontal |-> ~inHozChan, hints |-> hints]
     ELSE IF ~ignore /\ (vertChan \/ hozChan)
       THEN [brk |-> TRUE,
             horizontal |-> IF i = 1
                              THEN (IF Len(hints) % 2 = 0 THEN hozChan ELSE vertChan)
                              ELSE hozChan,
             hints |-> hints]
     ELSE [brk |-> FALSE, horizontal |-> horizontal,
           hints |-> IF fixedVertAlign /\ fixedHozAlign /\ hints # << >>
                       THEN Tail(hints) ELSE hints]

\* the loop "for (let i = 0; i < hints.length; i += 1)": w = [st, pt,
\* horizontal, hint]
RECURSIVE segmentHints(_, _, _)
segmentHints(w, hints, scale) ==
  IF hints = << >> THEN w
  ELSE LET horizontal == ~w.horizontal
           hint == Head(hints)
           pt == IF horizontal THEN Pt(w.pt[1], hint[2]) ELSE Pt(hint[1], w.pt[2])
       IN segmentHints([st |-> pushPoint(w.st, pt, scale), pt |-> pt,
                        horizontal |-> horizontal, hint |-> hint],
                       Tail(hints), scale)

\* "Removes bends inside the source terminal for floating ports"
RECURSIVE trimSource(_, _)
trimSource(res, source) ==
  IF Len(res) > 1 /\ res[2] # Null /\ contains(source, res[2][1], res[2][2])
    THEN trimSource(RemoveAt(res, 2), source)
    ELSE res

\* "Removes bends inside the target terminal"
RECURSIVE trimTarget(_, _)
trimTarget(res, target) ==
  IF Len(res) > 1 /\ res[Len(res)] # Null
     /\ contains(target, res[Len(res)][1], res[Len(res)][2])
    THEN trimTarget(RemoveAt(res, Len(res)), target)
    ELSE res

\* "Removes last point if inside tolerance with end point"
mergeLast(res, pe) ==
  IF /\ pe # Null
     /\ Len(res) > 0
     /\ res[Len(res)] # Null
     /\ Abs(pe[1] - res[Len(res)][1]) <= tol
     /\ Abs(pe[2] - res[Len(res)][2]) <= tol
    THEN LET r == RemoveAt(res, Len(res))
         IN IF Len(r) > 0 /\ r[Len(r)] # Null
              THEN [r EXCEPT ![Len(r)] = alignHint(r[Len(r)], pe)]
              ELSE r
    ELSE res

\* the push of the bend towards a terminal (lines 694-710 and 751-767)
segmentBend(st, horizontal, fixed, term, pt, hint, scale) ==
  IF /\ horizontal
     /\ \/ (fixed # Null /\ fixed[2] # hint[2])
        \/ (fixed = Null /\ ~term.isNull
            /\ (hint[2] < term.y \/ hint[2] > term.y + term.height))
    THEN pushPoint(st, Pt(pt[1], hint[2]), scale)
  ELSE IF /\ ~horizontal
          /\ \/ (fixed # Null /\ fixed[1] # hint[1])
             \/ (fixed = Null /\ ~term.isNull
                 /\ (hint[1] < term.x \/ hint[1] > term.x + term.width))
    THEN pushPoint(st, Pt(hint[1], pt[2]), scale)
  ELSE st

SegmentConnector(inp, result) ==
  LET scale == inp.scale
      p0 == scalePoint(inp.p0, scale)
      pN == scalePoint(inp.pe, scale)
      source == scaleCellState(inp.source, scale)
      target == scaleCellState(inp.target, scale)
      st0 == [res |-> result, last |-> IF Len(result) > 0 THEN result[1] ELSE Null]
      withHints == Len(inp.hints) > 0
      pe == IF withHints THEN pN ELSE Null
  IN
  With(IF p0 = Null /\ ~source.isNull
         THEN Pt(getRoutingCenterX(source), getRoutingCenterY(source))
         ELSE p0, LAMBDA first :
  \* Converts all hints; aligns source and target hint to fixed points
  With(transformHints(inp, inp.hints), LAMBDA h1 :
  With([h1 EXCEPT ![1] = alignHint(h1[1], first)], LAMBDA h2 :
  With([h2 EXCEPT ![Len(h2)] = alignHint(h2[Len(h2)], pe)], LAMBDA hints0 :
  With(segmentOrientation(0, IF p0 # Null THEN NullState ELSE source, p0,
                          hints0[1], hints0, TRUE), LAMBDA o1 :
  With(IF o1.brk THEN o1
       ELSE segmentOrientation(1, IF pN # Null THEN NullState ELSE target, pN,
                               hints0[Len(hints0)], o1.hints, o1.horizontal),
       LAMBDA o2 :
  With(IF withHints
         THEN segmentBend(st0, o2.horizontal, p0, source, first, hints0[1], scale)
         ELSE st0, LAMBDA bend :
  With(IF withHints
         THEN segmentHints(
                [st |-> bend,
                 pt |-> IF o2.horizontal THEN Pt(first[1], hints0[1][2])
                        ELSE Pt(hints0[1][1], first[2]),
                 horizontal |-> o2.horizontal, hint |-> hints0[1]],
                o2.hints, scale)
         ELSE [st |-> st0, pt |-> first, horizontal |-> TRUE, hint |-> first],
       LAMBDA w :
  With(IF pN = Null /\ ~target.isNull
         THEN Pt(getRoutingCenterX(target), getRoutingCenterY(target))
         ELSE pN, LAMBDA last :
  With(IF last # Null /\ w.hint # Null
         THEN segmentBend(w.st, w.horizontal, pN, target, last, w.hint, scale)
         ELSE w.st, LAMBDA st2 :
  With(IF p0 = Null /\ ~source.isNull THEN trimSource(st2.res, source) ELSE st2.res,
       LAMBDA r1 :
  With(IF pN = Null /\ ~target.isNull THEN trimTarget(r1, target) ELSE r1,
       LAMBDA r2 :
    IF withHints /\ first = Null
      \* pt.y = hint.y with pt == null (line 713)
      THEN Thrown(result) @@ [pushed |-> result, hintPushes |-> 0]
      \* pushed: result after the last pushPoint; hintPushes: the number
      \* of points the loop over the hints pushed
      ELSE Returned(mergeLast(r2, pe))
             @@ [pushed |-> st2.res,
                 hintPushes |-> Len(w.st.res) - Len(bend.res)]))))))))))))

(***************************************************************************)
(* Bit arithmetic of the 32-bit integers of JavaScript (only values        *)
(* below 2^31 occur)                                                       *)
(***************************************************************************)
RECURSIVE BitAnd(_, _)
BitAnd(a, b) ==
  IF a = 0 \/ b = 0 THEN 0
  ELSE (a % 2) * (b % 2) + 2 * BitAnd(a \div 2, b \div 2)

RECURSIVE BitOr(_, _)
BitOr(a, b) ==
  IF a = 0 THEN b
  ELSE IF b = 0 THEN a
  ELSE Max(a % 2, b % 2) + 2 * BitOr(a \div 2, b \div 2)

\* a << k on 32-bit integers, for a >= 0: the bits shifted beyond bit 31
\* are lost and bit 31 is the sign
Shl(a, k) ==
  IF k = 0 THEN a
  ELSE (a % (2 ^ (31 - k))) * (2 ^ k)
         + (IF (a \div (2 ^ (31 - k))) % 2 = 1 THEN (-(2 ^ 30)) * 2 ELSE 0)
\* a >> k
Shr(a, k) == a \div (2 ^ k)

\* mathUtils.reversePortConstraints
reversePortConstraints(constraint) ==
  BitOr(BitOr(Shl(BitAnd(constraint, DIRECTION_MASK_WEST), 3),
              Shl(BitAnd(constraint, DIRECTION_MASK_NORTH), 1)),
        BitOr(Shr(BitAnd(constraint, DIRECTION_MASK_SOUTH), 1),
              Shr(BitAnd(constraint, DIRECTION_MASK_EAST), 3)))

(***************************************************************************)
(* Static members of EdgeStyle used by OrthConnector                       *)
(***************************************************************************)
orthBuffer == 10

orthPointsFallback == TRUE

dirVectors == << <<-1, 0>>, <<0, -1>>, <<1, 0>>, <<0, 1>>,
                 <<-1, 0>>, <<0, -1>>, <<1, 0>> >>

routePatterns ==
  << << <<513, 2308, 2081, 2562>>,
        <<513, 1090, 514, 2184, 2114, 2561>>,
        <<513, 1090, 514, 2564, 2184, 2562>>,
        <<513, 2308, 2561, 1090, 514, 2568, 2308>> >>,
     << <<514, 1057, 513, 2308, 2081, 2562>>,
        <<514, 2184, 2114, 2561>>,
        <<514, 2184, 2562, 1057, 513, 2564, 2184>>,
        <<514, 1057, 513, 2568, 2308, 2561>> >>,
     << <<1090, 514, 1057, 513, 2308, 2081, 2562>>,
        <<2114, 2561>>,
        <<1090, 2562, 1057, 513, 2564, 2184>>,
        <<1090, 514, 1057, 513, 2308, 2561, 2568>> >>,
     << <<2081, 2562>>,
        <<1057, 513, 1090, 514, 2184, 2114, 2561>>,
        <<1057, 513, 1090, 514, 2184, 2562, 2564>>,
        <<1057, 2561, 1090, 514, 2568, 2308>> >> >>

\* null entries are << >>
inlineRoutePatterns ==
  << << << >>, <<2114, 2568>>, << >>, << >> >>,
     << << >>, <<514, 2081, 2114, 2568>>, << >>, << >> >>,
     << << >>, <<2114, 2561>>, << >>, << >> >>,
     << <<2081, 2562>>, <<1057, 2114, 2568>>, <<2184, 2562>>, << >> >> >>

SIDE_MASK == 480
CENTER_MASK == 512
SOURCE_MASK == 1024
TARGET_MASK == 2048

\* the scratch buffers as the class is loaded: wayPoints1 (12 points),
\* limits (2 rows, indices 0..8 kept at positions 1..9) and
\* vertexSeperations (an empty array; the walk writes indices 1..4)
InitBuffers ==
  [wayPoints1 |-> [k \in 1..12 |-> <<0, 0>>],
   limits |-> [i \in 1..2 |-> [k \in 1..9 |-> 0]],
   vertexSeperations |-> << >>]

(***************************************************************************)
(* EdgeStyle.getJettySize                                                  *)
(***************************************************************************)
getJettySize(inp, isSource) ==
  LET value == getValue(IF isSource THEN inp.sourceJettySize ELSE inp.targetJettySize,
                        getValue(inp.jettySize, orthBuffer))
      hasArrow == IF isSource THEN inp.startArrow ELSE inp.endArrow
      size == getValue(IF isSource THEN inp.startSize ELSE inp.endSize,
                       DEFAULT_MARKERSIZE)
      \* Math.ceil((size + orthBuffer) / orthBuffer)
      ceil == (size + orthBuffer + orthBuffer - 1) \div orthBuffer
  IN IF value = Auto
       THEN (IF hasArrow THEN Max(2, ceil) * orthBuffer ELSE 2 * orthBuffer) * Tenth
       ELSE value * Tenth

(***************************************************************************)
(* EdgeStyle.getRoutePattern and the index normalisation it shares with    *)
(* OrthConnector                                                           *)
(***************************************************************************)
\* "let sourceIndex = dir[0] === EAST ? 3 : dir[0]; sourceIndex -= quad;
\*  if (sourceIndex < 1) sourceIndex += 4"
patternIndex_noEast(d, quad) ==
  LET i == d - quad
  IN IF i < 1 THEN i + 4 ELSE i

patternIndex(d, quad) ==
  LET i == (IF d = DIRECTION_MASK_EAST THEN 3 ELSE d) - quad
  IN IF i < 1 THEN i + 4 ELSE i

\* the pattern returned with the two indices; routePatterns[sourceIndex - 1]
\* is undefined for an index outside the table, and reading an element of
\* it is a TypeError
getRoutePattern(dir, quad, dx, dy) ==
  LET sourceIndex == patternIndex(dir[1], quad)
      targetIndex == patternIndex(dir[2], quad)
      known == sourceIndex \in 1..4 /\ targetIndex \in 1..4
  IN [threw |-> sourceIndex \notin 1..4,
      undefined |-> sourceIndex \in 1..4 /\ targetIndex \notin 1..4,
      sourceIndex |-> sourceIndex, targetIndex |-> targetIndex,
      pattern |-> IF ~known THEN << >>
                  ELSE IF (dx = 0 \/ dy = 0)
                          /\ inlineRoutePatterns[sourceIndex][targetIndex] # << >>
                    THEN inlineRoutePatterns[sourceIndex][targetIndex]
                  ELSE routePatterns[sourceIndex][targetIndex]]

(***************************************************************************)
(* EdgeStyle.OrthConnector                                                 *)
(***************************************************************************)
\* geo[i] of the walk: [x, y, width, height] of a terminal, or of its fixed
\* point when the terminal is null
orthGeo(term, p) ==
  IF ~term.isNull THEN <<term.x, term.y, term.width, term.height>>
  ELSE <<p[1], p[2], 0, 0>>

\* the value NaN of a coordinate: what 0 / 0 and Infinity * 0 give
NaN == -100000000

\* a + b, a - b of numbers one of which may be NaN
Plus(a, b) == IF a = NaN \/ b = NaN THEN NaN ELSE a + b

\* a === b of numbers: NaN equals nothing
SameNumber(a, b) == a # NaN /\ b # NaN /\ a = b

\* "Work out which quad the target is in"
orthQuad(dx, dy) ==
  IF dx < 0 THEN (IF dy < 0 THEN 2 ELSE 1)
  ELSE IF dy <= 0 THEN (IF dx = 0 THEN 2 ELSE 3)
  ELSE 0

\* dir[i] as a fixed connection point on the bounding box sets it
orthFixedDir(ct, g) ==
  LET dh == IF ct = Null THEN 0
            ELSE IF Abs(ct[1] - g[1]) <= 1 * Tenth THEN DIRECTION_MASK_WEST
            ELSE IF Abs(ct[1] - g[1] - g[3]) <= 1 * Tenth THEN DIRECTION_MASK_EAST
            ELSE 0
  IN IF ct = Null THEN 0
     ELSE IF Abs(ct[2] - g[2]) <= 1 * Tenth THEN DIRECTION_MASK_NORTH
     ELSE IF Abs(ct[2] - g[2] - g[4]) <= 1 * Tenth THEN DIRECTION_MASK_SOUTH
     ELSE dh

\* constraint[i][k] * geo[i][2 + k]: the offset of the connection point
\* from the origin of the terminal (half the size when it floats)
\* The fraction constraint[i][k] is (ct[k] - g[k]) / g[2 + k]: on a
\* terminal of size 0 the division gives an infinity or NaN, and its product
\* with the size 0 is NaN
orthOffset(ct, g, k) ==
  IF ct = Null THEN Half(g[2 + k])
  ELSE IF g[2 + k] = 0 THEN NaN
  ELSE ct[k] - g[k]

orthSwitch_always(pref, constraint, fixedDir) ==
  IF fixedDir = 0 THEN reversePortConstraints(pref) ELSE pref

\* "If the preferred port isn't available, switch it"
orthSwitch(pref, constraint, fixedDir) ==
  IF fixedDir = 0 /\ BitAnd(pref, constraint) = 0
    THEN reversePortConstraints(pref) ELSE pref

orthChoose_secondRanked(i, own, other, constraint) ==
  [own |-> own,
   dir |-> IF constraint \in {DIRECTION_MASK_WEST, DIRECTION_MASK_NORTH,
                              DIRECTION_MASK_EAST, DIRECTION_MASK_SOUTH}
             THEN constraint
           ELSE IF BitAnd(own[2], constraint) # 0 THEN own[2]
           ELSE own[1]]

\* the packing of the four ranked candidates of terminal i and the choice
\* of dir[i]; own = prefOrdering[i], other = prefOrdering[1 - i]
orthChoose(i, own, other, constraint) ==
  LET own0 == IF BitAnd(own[1], constraint) = 0 THEN own[2] ELSE own[1]
      d1 == BitOr(BitOr(BitAnd(own0, constraint),
                        Shl(BitAnd(own[2], constraint), 8)),
                  BitOr(Shl(BitAnd(other[i + 1], constraint), 16),
                        Shl(BitAnd(other[2 - i], constraint), 24)))
      d2 == IF BitAnd(d1, 15) = 0 THEN Shl(d1, 8) ELSE d1
      d3 == IF BitAnd(d2, 3840) = 0
              THEN BitOr(BitAnd(d2, 15), Shr(d2, 8)) ELSE d2
      d4 == IF BitAnd(d3, 983040) = 0
              THEN BitOr(BitAnd(d3, 65535), Shr(BitAnd(d3, 251658240), 8)) ELSE d3
  IN [own |-> <<own0, own[2]>>,
      dir |-> IF constraint \in {DIRECTION_MASK_WEST, DIRECTION_MASK_NORTH,
                                 DIRECTION_MASK_EAST, DIRECTION_MASK_SOUTH}
                THEN constraint ELSE BitAnd(d4, 15)]

\* prefOrdering as it stands before the loop that compacts it: the ranked
\* directions of the source and of the target
orthPrefOrdering(geo, dir0, portConstraint) ==
  LET sourceTopDist == geo[1][2] - (geo[2][2] + geo[2][4])
      sourceLeftDist == geo[1][1] - (geo[2][1] + geo[2][3])
      sourceBottomDist == geo[2][2] - (geo[1][2] + geo[1][4])
      sourceRightDist == geo[2][1] - (geo[1][1] + geo[1][3])
      hor == IF sourceLeftDist >= sourceRightDist
               THEN DIRECTION_MASK_WEST ELSE DIRECTION_MASK_EAST
      vert == IF sourceTopDist >= sourceBottomDist
                THEN DIRECTION_MASK_NORTH ELSE DIRECTION_MASK_SOUTH
      horPref == <<orthSwitch(hor, portConstraint[1], dir0[1]),
                   orthSwitch(reversePortConstraints(hor), portConstraint[2], dir0[2])>>
      vertPref == <<orthSwitch(vert, portConstraint[1], dir0[1]),
                    orthSwitch(reversePortConstraints(vert), portConstraint[2], dir0[2])>>
      preferredHorizDist == Max(sourceLeftDist, sourceRightDist)
      preferredVertDist == Max(sourceTopDist, sourceBottomDist)
      po0 == [i \in 1..2 |-> IF dir0[i] # 0 THEN <<0, 0>>
                              ELSE <<vertPref[i], horPref[i]>>]
      horThenVert == << <<horPref[1], vertPref[1]>>, <<vertPref[2], horPref[2]>> >>
      vertThenHor == << <<vertPref[1], horPref[1]>>, <<horPref[2], vertPref[2]>> >>
      twoSegment ==
        IF preferredVertDist > 0 /\ preferredHorizDist > 0
          THEN (IF BitAnd(horPref[1], portConstraint[1]) > 0
                   /\ BitAnd(vertPref[2], portConstraint[2]) > 0 THEN 1
                ELSE IF BitAnd(vertPref[1], portConstraint[1]) > 0
                        /\ BitAnd(horPref[2], portConstraint[2]) > 0 THEN 2
                ELSE 0)
          ELSE 0
      po == IF twoSegment = 1 THEN horThenVert
            ELSE IF twoSegment = 2 THEN vertThenHor
            ELSE IF preferredVertDist > 0
              THEN << <<vertPref[1], horPref[1]>>, <<vertPref[2], horPref[2]>> >>
            ELSE IF preferredHorizDist > 0
              THEN << <<horPref[1], vertPref[1]>>, <<horPref[2], vertPref[2]>> >>
            ELSE po0
  IN po

\* "Start of source and target direction determination" to its end:
\* dir0 holds the directions fixed by connection points
orthDirections(geo, dir0, portConstraint) ==
  With(orthPrefOrdering(geo, dir0, portConstraint), LAMBDA po :
    With(orthChoose(0, po[1], po[2], portConstraint[1]), LAMBDA c1 :
      <<IF dir0[1] # 0 THEN dir0[1] ELSE c1.dir,
        IF dir0[2] # 0 THEN dir0[2]
        ELSE orthChoose(1, po[2], IF dir0[1] # 0 THEN po[1] ELSE c1.own,
                        portConstraint[2]).dir>>))

\* one round of the loop over the route pattern: w = [wp, idx, lastO] are
\* wayPoints1, currentIndex and lastOrientation; wayPoints1[k] is wp[k + 1]
orthWalkStep(w, code, quad, geo, off, limits, vsep) ==
  LET nextDirection == BitAnd(code, 15)
      di == (IF nextDirection = DIRECTION_MASK_EAST THEN 3 ELSE nextDirection) + quad
      directionIndex == IF di > 4 THEN di - 4 ELSE di
      direction == dirVectors[directionIndex]
      currentOrientation == IF directionIndex % 2 > 0 THEN 0 ELSE 1
      turned == currentOrientation # w.lastO
      idx == IF turned THEN w.idx + 1 ELSE w.idx
      wp1 == IF turned THEN [w.wp EXCEPT ![idx + 1] = w.wp[idx]] ELSE w.wp
      tar == BitAnd(code, TARGET_MASK) > 0
      sou == BitAnd(code, SOURCE_MASK) > 0
      side0 == Shl(Shr(BitAnd(code, SIDE_MASK), 5), quad)
      side == IF side0 > 15 THEN Shr(side0, 4) ELSE side0
      center == BitAnd(code, CENTER_MASK) > 0
      souTar == IF sou THEN 1 ELSE 2
      limit == IF center /\ currentOrientation = 0
                 THEN Plus(geo[souTar][1], off[souTar][1])
               ELSE IF center THEN Plus(geo[souTar][2], off[souTar][2])
               ELSE limits[souTar][side + 1]
      cur == wp1[idx + 1]
      k == currentOrientation + 1
      \* deltaX > 0 is false of NaN
      delta == IF limit = NaN \/ cur[k] = NaN THEN 0
               ELSE (limit - cur[k]) * direction[k]
      sep == Abs(Half(vsep[directionIndex]))
      moved == IF (sou \/ tar) /\ side < 9
                 THEN (IF delta > 0
                         THEN [cur EXCEPT ![k] = cur[k] + direction[k] * delta]
                         ELSE cur)
               ELSE IF center
                 THEN <<Plus(cur[1], direction[1] * sep),
                        Plus(cur[2], direction[2] * sep)>>
               ELSE cur
      wp2 == [wp1 EXCEPT ![idx + 1] = moved]
      back == idx > 0 /\ SameNumber(moved[k], wp2[idx][k])
  IN [wp |-> wp2,
      idx |-> IF back THEN idx - 1 ELSE idx,
      lastO |-> IF back THEN w.lastO ELSE currentOrientation]

RECURSIVE orthWalk(_, _, _, _, _, _, _)
orthWalk(w, pattern, quad, geo, off, limits, vsep) ==
  IF pattern = << >> THEN w
  ELSE orthWalk(orthWalkStep(w, Head(pattern), quad, geo, off, limits, vsep),
                Tail(pattern), quad, geo, off, limits, vsep)

\* "Removes duplicates": kept is the part of the array already passed
RECURSIVE removeDuplicates(_, _)
removeDuplicates(kept, rest) ==
  IF rest = << >> THEN kept
  ELSE IF kept # << >> /\ kept[Len(kept)] # Null /\ Head(rest) # Null
          /\ SameNumber(kept[Len(kept)][1], Head(rest)[1])
          /\ SameNumber(kept[Len(kept)][2], Head(rest)[2])
    THEN removeDuplicates(kept, Tail(rest))
    ELSE removeDuplicates(Append(kept, Head(rest)), Tail(rest))

\* the limits written for terminal i (lines 1124-1129)
orthLimits_stale(old, g, buffer) ==
  [old EXCEPT ![2] = g[1] - buffer, ![3] = g[2] - buffer,
              ![5] = g[1] + g[3] + buffer,
              ![9] = IF old[9] # 0 THEN old[9] ELSE g[2] + g[4] + buffer]

orthLimits(old, g, buffer) ==
  [old EXCEPT ![2] = g[1] - buffer, ![3] = g[2] - buffer,
              ![5] = g[1] + g[3] + buffer, ![9] = g[2] + g[4] + buffer]

\* wayPoints1[0] as the switch over dir[0] leaves it (lines 1353-1373)
orthStart(g, d, off, sourceBuffer) ==
  IF d = DIRECTION_MASK_WEST THEN <<g[1] - sourceBuffer, Plus(g[2], off[2])>>
  ELSE IF d = DIRECTION_MASK_SOUTH
    THEN <<Plus(g[1], off[1]), g[2] + g[4] + sourceBuffer>>
  ELSE IF d = DIRECTION_MASK_EAST
    THEN <<g[1] + g[3] + sourceBuffer, Plus(g[2], off[2])>>
  ELSE IF d = DIRECTION_MASK_NORTH THEN <<Plus(g[1], off[1]), g[2] - sourceBuffer>>
  ELSE <<g[1], g[2]>>

\* Math.round(v * scale * 10) / 10, NaN of NaN
orthRound(v, scale) == IF v = NaN THEN NaN ELSE ScaleUp(v, scale)

\* the points pushed by the loop "for (let i = 0; i <= currentIndex; ...)"
orthEmit_keepsLast(wp, currentIndex, keepLast, scale) ==
  [i \in 1..(currentIndex + 1) |->
     Pt(orthRound(wp[i][1], scale), orthRound(wp[i][2], scale))]

orthEmit(wp, currentIndex, keepLast, scale) ==
  [i \in 1..(IF keepLast THEN currentIndex + 1 ELSE currentIndex) |->
     Pt(orthRound(wp[i][1], scale), orthRound(wp[i][2], scale))]

\* what an OrthConnector call leaves behind: the result, the scratch
\* buffers, and the choices of the walk (walked is FALSE when the call
\* threw or delegated to SegmentConnector)
OrthOutcome(r, buf, walked, dir, quad, sourceIndex, targetIndex, emitted, via) ==
  [res |-> r.res, threw |-> r.threw, buf |-> buf, walked |-> walked, via |-> via,
   normalised |-> sourceIndex # 0 \/ targetIndex # 0 \/ walked,
   dir |-> dir, quad |-> quad, sourceIndex |-> sourceIndex,
   targetIndex |-> targetIndex, emitted |-> emitted,
   pattern |-> << >>, dx |-> 0, dy |-> 0, generated |-> 0,
   dir0 |-> <<0, 0>>, portConstraint |-> <<0, 0>>, prefOrdering |-> << >>,
   divisors |-> {}]

OrthConnector(inp, result, buf) ==
  LET scale == inp.scale
      p0 == scalePoint(inp.p0, scale)
      pe == scalePoint(inp.pe, scale)
      source == scaleCellState(inp.source, scale)
      target == scaleCellState(inp.target, scale)
      sourceEdge == IF source.isNull THEN FALSE ELSE source.isEdge
      targetEdge == IF target.isNull THEN FALSE ELSE target.isEdge
      sb0 == getJettySize(inp, TRUE)
      tb0 == getJettySize(inp, FALSE)
      portConstraint ==
        <<IF source.isNull THEN DIRECTION_MASK_ALL
            ELSE getPortConstraints(source, DIRECTION_MASK_ALL),
          IF target.isNull THEN DIRECTION_MASK_ALL
            ELSE getPortConstraints(target, DIRECTION_MASK_ALL)>>
      term == <<IF source.isNull THEN Null ELSE p0,
                IF target.isNull THEN Null ELSE pe>>
  IN
  \* buffer = [sourceBuffer, targetBuffer], with the "Workaround for loop
  \* routing within buffer zone"
  With(IF ~source.isNull /\ inp.loop
         THEN <<Max(sb0, tb0), Max(sb0, tb0)>> ELSE <<sb0, tb0>>, LAMBDA buffer :
  IF (source.isNull /\ p0 = Null) \/ (target.isNull /\ pe = Null)
    \* p0.x with p0 == null (lines 1028-1036)
    THEN OrthOutcome(Thrown(result), buf, FALSE, <<0, 0>>, 0, 0, 0, << >>,
                     "OrthConnector")
  ELSE IF \/ (/\ p0 # Null /\ pe # Null
              /\ (pe[1] - p0[1]) * (pe[1] - p0[1]) + (pe[2] - p0[2]) * (pe[2] - p0[2])
                   < (buffer[1] + buffer[2]) * (buffer[1] + buffer[2]))
          \/ (orthPointsFallback /\ Len(inp.hints) > 0)
          \/ sourceEdge
          \/ targetEdge
    THEN OrthOutcome(SegmentConnector(inp, result), buf, FALSE,
                     <<0, 0>>, 0, 0, 0, << >>, "SegmentConnector")
  ELSE
  With(<<orthGeo(source, p0), orthGeo(target, pe)>>, LAMBDA geo :
  \* the values worked out from geo before the directions are chosen
  With([limits |-> <<orthLimits(buf.limits[1], geo[1], buffer[1]),
                     orthLimits(buf.limits[2], geo[2], buffer[2])>>,
        dx |-> (geo[1][1] + Half(geo[1][3])) - (geo[2][1] + Half(geo[2][3])),
        dy |-> (geo[1][2] + Half(geo[1][4])) - (geo[2][2] + Half(geo[2][4])),
        quad |-> orthQuad(
                   (geo[1][1] + Half(geo[1][3])) - (geo[2][1] + Half(geo[2][3])),
                   (geo[1][2] + Half(geo[1][4])) - (geo[2][2] + Half(geo[2][4]))),
        dir0 |-> <<orthFixedDir(term[1], geo[1]), orthFixedDir(term[2], geo[2])>>,
        off |-> [i \in 1..2 |-> <<orthOffset(term[i], geo[i], 1),
                                  orthOffset(term[i], geo[i], 2)>>],
        vsep |-> <<Max(geo[1][1] - (geo[2][1] + geo[2][3]) - (buffer[1] + buffer[2]), 0),
                   Max(geo[1][2] - (geo[2][2] + geo[2][4]) - (buffer[1] + buffer[2]), 0),
                   Max(geo[2][1] - (geo[1][1] + geo[1][3]) - (buffer[1] + buffer[2]), 0),
                   Max(geo[2][2] - (geo[1][2] + geo[1][4]) - (buffer[1] + buffer[2]), 0)>>],
       LAMBDA pre :
  With(orthDirections(geo, pre.dir0, portConstraint), LAMBDA dir :
  \* the indices into routePatterns, the first waypoint and the statics
  \* as written so far
  With([sourceIndex |-> patternIndex(dir[1], pre.quad),
        targetIndex |-> patternIndex(dir[2], pre.quad),
        initialOrientation |->
          IF BitAnd(dir[1], DIRECTION_MASK_EAST + DIRECTION_MASK_WEST) > 0 THEN 0 ELSE 1,
        targetOrientation |->
          IF BitAnd(dir[2], DIRECTION_MASK_EAST + DIRECTION_MASK_WEST) > 0 THEN 0 ELSE 1,
        written |->
          [wayPoints1 |-> [buf.wayPoints1 EXCEPT
                             ![1] = orthStart(geo[1], dir[1], pre.off[1], buffer[1])],
           limits |-> pre.limits, vertexSeperations |-> pre.vsep]],
       LAMBDA ix :
  IF ~(ix.sourceIndex \in 1..4 /\ ix.targetIndex \in 1..4)
    \* routePatterns[sourceIndex - 1][targetIndex - 1] is undefined
    THEN OrthOutcome(Thrown(result), ix.written, FALSE, dir, pre.quad,
                     ix.sourceIndex, ix.targetIndex, << >>, "OrthConnector")
  ELSE
  With(orthWalk([wp |-> ix.written.wayPoints1, idx |-> 0,
                 lastO |-> ix.initialOrientation],
                routePatterns[ix.sourceIndex][ix.targetIndex], pre.quad, geo,
                pre.off, pre.limits, pre.vsep), LAMBDA w :
  \* sameOrient == (currentIndex + 1) % 2 keeps the last waypoint
  With(orthEmit(w.wp, w.idx,
                (IF ix.targetOrientation = ix.initialOrientation THEN 0 ELSE 1)
                  = (w.idx + 1) % 2, scale), LAMBDA emitted :
    \* pattern: the routePattern of the walk; dx, dy: the offset of the
    \* centres; generated: currentIndex + 1, the waypoints the walk made;
    \* dir0: the directions fixed by connection points; prefOrdering: the
    \* ranked directions before they are compacted; divisors: the sizes the
    \* constraint fractions were divided by
    [OrthOutcome(Returned(removeDuplicates(<< >>, result \o emitted)),
                 [ix.written EXCEPT !.wayPoints1 = w.wp], TRUE, dir, pre.quad,
                 ix.sourceIndex, ix.targetIndex, emitted, "OrthConnector")
       EXCEPT !.pattern = routePatterns[ix.sourceIndex][ix.targetIndex],
              !.dx = pre.dx, !.dy = pre.dy, !.generated = w.idx + 1,
              !.dir0 = pre.dir0, !.portConstraint = portConstraint,
              !.prefOrdering = orthPrefOrdering(geo, pre.dir0, portConstraint),
              !.divisors = {geo[i][2 + k] : i \in {j \in 1..2 : term[j] # Null},
                                            k \in 1..2}])))))))

(***************************************************************************)
(* EdgeStyle.ManhattanConnector: constants and helpers                     *)
(***************************************************************************)
MANHATTAN_STEP == 12

MANHATTAN_MAXIMUM_LOOPS == 2000

MANHATTAN_START_DIRECTIONS == <<"north", "east", "south", "west">>

MANHATTAN_END_DIRECTIONS == <<"north", "east", "south", "west">>

MANHATTAN_MAX_ALLOWED_DIRECTION_CHANGE == 90

\* MANHATTAN_PADDING_BOX, a rectangle [x, y, width, height] in tenths
MANHATTAN_PADDING_BOX ==
  [x |-> -MANHATTAN_STEP * Tenth, y |-> -MANHATTAN_STEP * Tenth,
   width |-> MANHATTAN_STEP * 2 * Tenth, height |-> MANHATTAN_STEP * 2 * Tenth]

\* ObstacleMap.mapGridSize
mapGridSize == 100

moveAndExpand(target, source) ==
  [x |-> target.x + source.x, y |-> target.y + source.y,
   width |-> target.width + source.width, height |-> target.height + source.height]

\* gridSize * Math.round(value / gridSize), gridSize in units
snapCoordinateToGrid(value, grid) == grid * Tenth * Round(value, grid * Tenth)

snapPointToGrid_none(p, grid) == p

snapPointToGrid(p, grid) ==
  Pt(snapCoordinateToGrid(p[1], grid), snapCoordinateToGrid(p[2], grid))

isPointInRectangle(rect, p) ==
  /\ p[1] >= rect.x
  /\ p[1] <= rect.x + rect.width
  /\ p[2] >= rect.y
  /\ p[2] <= rect.y + rect.height

getRectangleCenter(rect) == Pt(rect.x + Half(rect.width), rect.y + Half(rect.height))

getDifferencePoint(p1, p2) == Pt(p1[1] - p2[1], p1[2] - p2[2])

movePoint(p, moveX, moveY) == Pt(p[1] + moveX, p[2] + moveY)

Sign(v) == IF v = 0 THEN 0 ELSE IF v > 0 THEN 1 ELSE -1

normalizePoint(point) == Pt(Sign(point[1]), Sign(point[2]))

getManhattanDistance(p1, p2) == Abs(p2[1] - p1[1]) + Abs(p2[2] - p1[2])

\* parseInt of one coordinate of a key: the fraction is cut off
parseInt(v) == IF v >= 0 THEN (v \div Tenth) * Tenth ELSE -(((-v) \div Tenth) * Tenth)

\* pointToString writes both coordinates in full, so a key is modelled as
\* the pair itself; toPointFromString reads it back with parseInt
pointToString(point) == point

toPointFromString(key) == Pt(parseInt(key[1]), parseInt(key[2]))

\* getCellAbsoluteBounds: the bounds of the state in local coordinates
getCellAbsoluteBounds(cellState, inp) ==
  [x |-> Round(cellState.x - inp.tr[1] * inp.scale, inp.scale),
   y |-> Round(cellState.y - inp.tr[2] * inp.scale, inp.scale),
   width |-> Round(cellState.width, inp.scale),
   height |-> Round(cellState.height, inp.scale)]

normalizeAngle(angle) == (IF angle < 0 THEN -((-angle) % 360) ELSE angle % 360)
                           + (IF angle < 0 THEN 360 ELSE 0)

\* getDirectionAngle(start, end, 4): the quarter of the compass that
\* holds the vector from start to end, as
\* floor(normalizeAngle(getPointTheta(start, end) + 45) / 90) * 90.
\* With x to the east and y to the north the quarter 0 is -45 <= theta <
\* 45, the quarter 90 is 45 <= theta < 135, and so on; the null vector
\* has theta 0
getDirectionAngle(start, end) ==
  LET x == end[1] - start[1]
      y == -(end[2] - start[2])
  IN IF x = 0 /\ y = 0 THEN 0
     ELSE IF x > 0 /\ y < x /\ y >= -x THEN 0
     ELSE IF y > 0 /\ x <= y /\ x > -y THEN 90
     ELSE IF x < 0 /\ y <= -x /\ y > x THEN 180
     ELSE 270

getDirectionChange(angle1, angle2) ==
  LET dirChange == Abs(angle1 - angle2)
  IN IF dirChange > 180 THEN 360 - dirChange ELSE dirChange

\* config.directions: offsetX, offsetY, cost and
\* normalizeAngle(getPointTheta((0, 0), (offsetX, offsetY)))
directions ==
  << [offsetX |-> MANHATTAN_STEP * Tenth, offsetY |-> 0,
      cost |-> MANHATTAN_STEP * Tenth, angle |-> normalizeAngle(0)],
     [offsetX |-> 0, offsetY |-> MANHATTAN_STEP * Tenth,
      cost |-> MANHATTAN_STEP * Tenth, angle |-> normalizeAngle(-90)],
     [offsetX |-> -MANHATTAN_STEP * Tenth, offsetY |-> 0,
      cost |-> MANHATTAN_STEP * Tenth, angle |-> normalizeAngle(-180)],
     [offsetX |-> 0, offsetY |-> -MANHATTAN_STEP * Tenth,
      cost |-> MANHATTAN_STEP * Tenth, angle |-> normalizeAngle(90)] >>

directionMap(d) ==
  IF d = "east" THEN Pt(1, 0)
  ELSE IF d = "south" THEN Pt(0, 1)
  ELSE IF d = "west" THEN Pt(-1, 0)
  ELSE Pt(0, -1)

\* config.penaltiesGenerator
penaltiesGenerator(angle) ==
  IF angle = 45 \/ angle = 90 \/ angle = 180
    THEN Half(MANHATTAN_STEP * Tenth) ELSE 0

(***************************************************************************)
(* ObstacleMap: map is a function from the bucket keys to the set of the   *)
(* rectangles put in the bucket                                            *)
(***************************************************************************)
bucketKeys_originOnly(bbox) ==
  {snapPointToGrid(Pt(bbox.x, bbox.y), mapGridSize)}

\* the keys of the buckets that build() adds bbox to
bucketKeys(bbox) ==
  LET origin == snapPointToGrid(Pt(bbox.x, bbox.y), mapGridSize)
      corner == snapPointToGrid(Pt(bbox.x + bbox.width, bbox.y + bbox.height),
                                mapGridSize)
      g == mapGridSize * Tenth
  IN {Pt(origin[1] + i * g, origin[2] + j * g) :
        i \in 0..((corner[1] - origin[1]) \div g),
        j \in 0..((corner[2] - origin[2]) \div g)}

ObstacleMap_build_empty(inp) == << >>

\* ObstacleMap.build: every vertex state of the view, padded
ObstacleMap_build(inp) ==
  LET boxes == {moveAndExpand(getCellAbsoluteBounds(s, inp), MANHATTAN_PADDING_BOX) :
                  s \in inp.vertices}
      keys == UNION {bucketKeys(b) : b \in boxes}
  IN [k \in keys |-> {b \in boxes : k \in bucketKeys(b)}]

isPointAccessible_open(map, point) == TRUE

isPointAccessible(map, point) ==
  LET mapKey == pointToString(snapPointToGrid(point, mapGridSize))
  IN IF mapKey \in DOMAIN map
       THEN \A obstacle \in map[mapKey] : ~isPointInRectangle(obstacle, point)
       ELSE TRUE

(***************************************************************************)
(* SortedSet: items is the sorted array of keys, hash maps a key to        *)
(* [value, open]                                                           *)
(***************************************************************************)
RemoveKey(items, key) ==
  IF \E i \in 1..Len(items) : items[i] = key
    THEN RemoveAt(items, CHOOSE i \in 1..Len(items) : items[i] = key)
    ELSE items

InsertSorted_atEnd(items, key, hash) == Append(items, key)

\* push(key) followed by the stable sort by value: items was sorted
\* before the push, so key comes to rest behind the last item whose value
\* is not greater
InsertSorted(items, key, hash) ==
  LET k == Cardinality({i \in 1..Len(items) : hash[items[i]].value <= hash[key].value})
  IN SubSeq(items, 1, k) \o <<key>> \o SubSeq(items, k + 1, Len(items))

\* the value of hash[key] stays open or closed as it was
SortedSet_add(set, key, value) ==
  LET known == key \in DOMAIN set.hash
      hash == IF known
                THEN [set.hash EXCEPT ![key].value = value]
                ELSE (key :> [value |-> value, open |-> TRUE]) @@ set.hash
      \* items.splice(items.indexOf(key), 1): indexOf is -1 for a key that
      \* is not listed, and splice(-1, 1) removes the last item
      items == IF known
                 THEN (IF \E i \in 1..Len(set.items) : set.items[i] = key
                         THEN RemoveKey(set.items, key)
                         ELSE SubSeq(set.items, 1, Len(set.items) - 1))
                 ELSE set.items
  IN [items |-> InsertSorted(items, key, hash), hash |-> hash]

SortedSet_isOpen(set, key) == key \in DOMAIN set.hash /\ set.hash[key].open

SortedSet_isClose_never(set, key) == FALSE

SortedSet_isClose(set, key) == key \in DOMAIN set.hash /\ ~set.hash[key].open

\* pop: items.shift() and remove(key)
SortedSet_pop(set) ==
  [items |-> Tail(set.items),
   hash |-> [set.hash EXCEPT ![Head(set.items)].open = FALSE]]

(***************************************************************************)
(* getRectPoints, estimateCost                                             *)
(***************************************************************************)
rectPoint(bbox, direction) ==
  LET center == getRectangleCenter(bbox)
      directionPoint == directionMap(direction)
      point == movePoint(center, directionPoint[1] * Half(bbox.width),
                         directionPoint[2] * Half(bbox.height))
      moved == IF isPointInRectangle(bbox, point)
                 THEN movePoint(point, directionPoint[1] * MANHATTAN_STEP * Tenth,
                                directionPoint[2] * MANHATTAN_STEP * Tenth)
                 ELSE point
  IN snapPointToGrid(moved, MANHATTAN_STEP)

getRectPoints(bbox, directionList) ==
  [i \in 1..Len(directionList) |-> rectPoint(bbox, directionList[i])]

\* Array.prototype.filter
RECURSIVE filterAccessible(_, _)
filterAccessible(map, points) ==
  IF points = << >> THEN << >>
  ELSE (IF isPointAccessible(map, Head(points)) THEN <<Head(points)>> ELSE << >>)
         \o filterAccessible(map, Tail(points))

\* estimateCost for a non-empty list of end points
RECURSIVE estimateCost(_, _)
estimateCost(from, endPoints) ==
  IF Len(endPoints) = 1 THEN getManhattanDistance(from, endPoints[1])
  ELSE Min(getManhattanDistance(from, Head(endPoints)),
           estimateCost(from, Tail(endPoints)))

(***************************************************************************)
(* reconstructRoute, alignPointToCell, findRoute, router                   *)
(***************************************************************************)
\* the locals of findRoute and reconstructRoute before a search
NoSearch ==
  [obstacleMap |-> << >>, startPoints |-> << >>, endPoints |-> << >>,
   startCenter |-> Null, endCenter |-> Null,
   openSet |-> [items |-> << >>, hash |-> << >>],
   parents |-> << >>, costs |-> << >>, loopsRemain |-> 0,
   currentDirectionAngle |-> Unset, previousDirectionAngle |-> Unset,
   previousDirAngle |-> 0, pops |-> 0, route |-> << >>,
   current |-> Null, previousDirection |-> Null, found |-> FALSE,
   endPoint |-> Null]

\* a JavaScript number taken as a condition: undefined and 0 are false
truthy(v) == v # Unset /\ v # 0

\* one round of the loop "Go over all possible directions and find
\* neighbors"; s = [openSet, parents, costs]
RECURSIVE expandNeighbors(_, _, _, _, _, _, _, _)
expandNeighbors(s, i, currentPoint, currentCost, currentDirectionAngle, previousDirectionAngle, obstacleMap, endPoints) ==
  IF i > Len(directions) THEN s
  ELSE
    LET direction == directions[i]
        directionChangedAngle == getDirectionChange(currentDirectionAngle, direction.angle)
        neighborPoint == movePoint(currentPoint, direction.offsetX, direction.offsetY)
        neighborKey == pointToString(neighborPoint)
        costFromStart == currentCost + direction.cost
                           + penaltiesGenerator(directionChangedAngle)
        skip == \/ (truthy(previousDirectionAngle)
                     /\ directionChangedAngle > MANHATTAN_MAX_ALLOWED_DIRECTION_CHANGE)
                \/ SortedSet_isClose(s.openSet, neighborKey)
                \/ ~isPointAccessible(obstacleMap, neighborPoint)
        better == \/ ~SortedSet_isOpen(s.openSet, neighborKey)
                  \/ costFromStart < s.costs[neighborKey]
        s1 == IF ~skip /\ better
                THEN [openSet |-> SortedSet_add(s.openSet, neighborKey,
                                    costFromStart + estimateCost(neighborPoint, endPoints)),
                      parents |-> (neighborKey :> currentPoint) @@ s.parents,
                      costs |-> (neighborKey :> costFromStart) @@ s.costs]
                ELSE s
    IN expandNeighbors(s1, i + 1, currentPoint, currentCost, currentDirectionAngle,
                       previousDirectionAngle, obstacleMap, endPoints)

\* startPoints.forEach(p => openSet.add(key, estimateCost(p, endPoints)))
RECURSIVE addStartPoints(_, _, _)
addStartPoints(set, points, endPoints) ==
  IF points = << >> THEN set
  ELSE addStartPoints(SortedSet_add(set, pointToString(Head(points)),
                                    estimateCost(Head(points), endPoints)),
                      Tail(points), endPoints)

\* exitX, exitY, entryX, entryY are given in tenths of the cell's size
alignPointToCell(point, inp, cellState, isSourceCell) ==
  LET cellBounds == getCellAbsoluteBounds(cellState, inp)
      y == IF isSourceCell THEN inp.exitY ELSE inp.entryY
      x == IF isSourceCell THEN inp.exitX ELSE inp.entryX
      list == IF isSourceCell THEN inp.startDirections ELSE inp.endDirections
      onlyHorizontalDirections ==
        \A i \in 1..Len(list) : list[i] # "north" /\ list[i] # "south"
      onlyVerticalDirections ==
        \A i \in 1..Len(list) : list[i] # "west" /\ list[i] # "east"
  IN Pt(IF x # Unset /\ onlyVerticalDirections
          THEN cellBounds.x + Round(cellBounds.width * x, Tenth) ELSE point[1],
        IF y # Unset /\ onlyHorizontalDirections
          THEN cellBounds.y + Round(cellBounds.height * y, Tenth) ELSE point[2])

alignRoute_firstOnly(routePoints, inp) ==
  [i \in 1..Len(routePoints) |->
     IF i = 1 THEN alignPointToCell(routePoints[i], inp, inp.source, TRUE)
     ELSE routePoints[i]]

\* the route with its first and its last point aligned to the terminals
alignRoute(routePoints, inp) ==
  [i \in 1..Len(routePoints) |->
     IF i = 1 THEN alignPointToCell(routePoints[i], inp, inp.source, TRUE)
     ELSE IF i = Len(routePoints)
       THEN alignPointToCell(routePoints[i], inp, inp.target, FALSE)
     ELSE routePoints[i]]

\* "Scaling and translating result points"
scaleRoute(routePoints, inp) ==
  [i \in 1..Len(routePoints) |->
     Pt(ScaleUp(routePoints[i][1] + inp.tr[1], inp.scale),
        ScaleUp(routePoints[i][2] + inp.tr[2], inp.scale))]

\* the locals of findRoute before its main loop
findRouteStart(inp) ==
  LET start == moveAndExpand(getCellAbsoluteBounds(inp.source, inp), MANHATTAN_PADDING_BOX)
      end == moveAndExpand(getCellAbsoluteBounds(inp.target, inp), MANHATTAN_PADDING_BOX)
      obstacleMap == ObstacleMap_build(inp)
      startPoints == filterAccessible(obstacleMap,
                       getRectPoints(start, inp.startDirections))
      endPoints == filterAccessible(obstacleMap,
                     getRectPoints(end, inp.endDirections))
  IN [NoSearch EXCEPT
        !.obstacleMap = obstacleMap,
        !.startPoints = startPoints,
        !.endPoints = endPoints,
        !.startCenter = snapPointToGrid(getRectangleCenter(start), MANHATTAN_STEP),
        !.endCenter = snapPointToGrid(getRectangleCenter(end), MANHATTAN_STEP),
        !.openSet = IF endPoints = << >> THEN NoSearch.openSet
                    ELSE addStartPoints(NoSearch.openSet, startPoints, endPoints),
        !.costs = [k \in {pointToString(startPoints[i]) : i \in 1..Len(startPoints)}
                     |-> 0],
        !.loopsRemain = MANHATTAN_MAXIMUM_LOOPS]

(***************************************************************************)
(* The routing calls.  One behaviour of Spec is one call of one connector  *)
(* on an edge state and a result array; SpecSeq runs calls one after       *)
(* another over the static scratch buffers of OrthConnector.               *)
(***************************************************************************)
VARIABLES
  pc,          \* "idle", "search", "reconstruct" or "done"
  connector,   \* the connector called
  input,       \* the edge state, the terminals, the hints, and the static
               \* direction lists of EdgeStyle as the call finds them
  result0,     \* the result array as handed to the connector
  result,      \* the result array as the connector left it
  threw,       \* the call ended in a TypeError
  buf,         \* EdgeStyle.wayPoints1, limits, vertexSeperations
  orth,        \* what the last pattern walk chose
  via,         \* the connector that wrote the result
  search,      \* the locals of findRoute and reconstructRoute
  calls        \* number of calls made

vars == <<pc, connector, input, result0, result, threw, buf, orth, via, search, calls>>

\* number of calls in one behaviour of SpecSeq
MaxCalls == 2

DefaultInput ==
  [p0 |-> Null, pe |-> Null, source |-> NullState, target |-> NullState,
   hints |-> << >>, scale |-> 1, tr |-> Pt(0, 0), segment |-> Unset,
   direction |-> "", elbow |-> "", jettySize |-> Unset,
   sourceJettySize |-> Unset, targetJettySize |-> Unset,
   startArrow |-> FALSE, endArrow |-> FALSE, startSize |-> Unset,
   endSize |-> Unset, loop |-> FALSE, vertices |-> {},
   exitX |-> Unset, exitY |-> Unset, entryX |-> Unset, entryY |-> Unset,
   startDirections |-> MANHATTAN_START_DIRECTIONS,
   endDirections |-> MANHATTAN_END_DIRECTIONS]

NoOrth ==
  [walked |-> FALSE, normalised |-> FALSE, dir |-> <<0, 0>>, quad |-> 0,
   sourceIndex |-> 0, targetIndex |-> 0, emitted |-> << >>, pattern |-> << >>,
   dx |-> 0, dy |-> 0, generated |-> 0,
   dir0 |-> <<0, 0>>, portConstraint |-> <<0, 0>>, prefOrdering |-> << >>,
   divisors |-> {}]

\* cells of the scenes, in tenths of a unit at scale 1
cellA == Vertex(0, 0, 400, 400)
cellB == Vertex(2000, 0, 400, 400)
cellC == Vertex(0, 1200, 400, 400)
cellD == Vertex(1200, 800, 400, 400)
cellE == Vertex(200, 200, 400, 400)

Scales == {1, 2}

\* a cell state of the view at the given scale
atScale(s, scale) ==
  IF s.isNull THEN s
  ELSE [s EXCEPT !.x = s.x * scale, !.y = s.y * scale,
                 !.width = s.width * scale, !.height = s.height * scale]

pointAtScale(p, scale) == IF p = Null THEN Null ELSE Pt(p[1] * scale, p[2] * scale)

\* the result array handed over: empty, or holding the first absolute
\* point as GraphView.updatePoints leaves it
InitialResults(inp) == {<< >>, <<inp.p0>>}

SimpleInputs ==
  {[DefaultInput EXCEPT !.source = atScale(s, k), !.target = atScale(t, k),
                        !.p0 = pointAtScale(a, k), !.pe = pointAtScale(e, k),
                        !.hints = h, !.scale = k] :
     s \in {NullState, cellA, cellD}, t \in {NullState, cellB, cellD, cellC},
     a \in {Null, Pt(400, 200)}, e \in {Null, Pt(2000, 200)},
     h \in {<< >>, <<Pt(1000, 600)>>}, k \in Scales}

Init ==
  /\ pc = "idle"
  /\ connector = "none"
  /\ input = DefaultInput
  /\ result0 = << >>
  /\ result = << >>
  /\ threw = FALSE
  /\ buf = InitBuffers
  /\ orth = NoOrth
  /\ via = "none"
  /\ search = NoSearch
  /\ calls = 0

\* a call that runs to its end in one step
Finish(name, inp, r0, out, writer) ==
  /\ pc' = "done"
  /\ connector' = name
  /\ input' = inp
  /\ result0' = r0
  /\ result' = out.res
  /\ threw' = out.threw
  /\ via' = writer
  /\ calls' = calls + 1

CallEntityRelation ==
  /\ pc = "idle"
  /\ \E inp \in SimpleInputs : \E r0 \in InitialResults(inp) :
       \E seg \in {Unset, 100} :
         LET i == [inp EXCEPT !.segment = seg]
         IN Finish("EntityRelation", i, r0, EntityRelation(i, r0), "EntityRelation")
  /\ UNCHANGED <<buf, orth, search>>

\* the inputs of Loop: those of SimpleInputs, and two hints in place of none
LoopInputs ==
  SimpleInputs
    \cup {[inp EXCEPT !.hints = <<Pt(1000, 600), Pt(200, 300)>>] :
            inp \in {i \in SimpleInputs : i.hints = << >>}}

CallLoop ==
  /\ pc = "idle"
  /\ \E inp \in LoopInputs : \E r0 \in InitialResults(inp) :
       \E d \in {"", "north", "south", "east"}, seg \in {Unset, 100} :
         LET i == [inp EXCEPT !.direction = d, !.segment = seg]
         IN Finish("Loop", i, r0, Loop(i, r0), "Loop")
  /\ UNCHANGED <<buf, orth, search>>

CallElbowConnector ==
  /\ pc = "idle"
  /\ \E inp \in SimpleInputs : \E r0 \in InitialResults(inp) :
       \E e \in {"", "vertical", "horizontal"} :
         LET i == [inp EXCEPT !.elbow = e]
         IN Finish("ElbowConnector", i, r0, ElbowConnector(i, r0), "ElbowConnector")
  /\ UNCHANGED <<buf, orth, search>>

\* two shapes that overlap, with and without a hint
OverlapInputs ==
  {[DefaultInput EXCEPT !.source = atScale(cellA, k), !.target = atScale(cellE, k),
                        !.hints = h, !.scale = k] :
     h \in {<< >>, <<Pt(1000, 600)>>, <<Pt(300, 300)>>}, k \in Scales}

CallSideToSide ==
  /\ pc = "idle"
  /\ \E inp \in SimpleInputs \cup OverlapInputs : \E r0 \in InitialResults(inp) :
       Finish("SideToSide", inp, r0, SideToSide(inp, r0), "SideToSide")
  /\ UNCHANGED <<buf, orth, search>>

CallTopToBottom ==
  /\ pc = "idle"
  /\ \E inp \in SimpleInputs \cup OverlapInputs : \E r0 \in InitialResults(inp) :
       Finish("TopToBottom", inp, r0, TopToBottom(inp, r0), "TopToBottom")
  /\ UNCHANGED <<buf, orth, search>>

\* inputs of SegmentConnector: fixed points half a unit apart, hints on
\* and off the first fixed point
SegmentInputs ==
  {[DefaultInput EXCEPT !.source = atScale(s, k), !.target = atScale(t, k),
                        !.p0 = pointAtScale(a, k), !.pe = pointAtScale(e, k),
                        !.hints = h, !.scale = k] :
     s \in {NullState, cellA}, t \in {NullState, cellB},
     a \in {Null, Pt(400, 200)},
     e \in {Null, Pt(405, 200), Pt(2000, 200), Pt(2000, 205)},
     h \in {<< >>, <<Pt(400, 200)>>, <<Pt(1000, 600)>>,
            <<Pt(1000, 600), Pt(1400, 200)>>, <<Pt(1000, 205), Pt(1000, 200)>>,
            <<Pt(400, 600), Pt(405, 600)>>, <<Pt(1000, 200), Pt(1000, 205)>>,
            <<Pt(1000, 600), Pt(1000, 605)>>},
     k \in Scales}

CallSegmentConnector ==
  /\ pc = "idle"
  /\ \E inp \in SegmentInputs : \E r0 \in InitialResults(inp) :
       Finish("SegmentConnector", inp, r0, SegmentConnector(inp, r0),
              "SegmentConnector")
  /\ UNCHANGED <<buf, orth, search>>

OrthSources ==
  {NullState, cellA, [cellA EXCEPT !.portConstraint = DIRECTION_MASK_WEST],
   [cellA EXCEPT !.portConstraint = DIRECTION_MASK_NORTH]}

OrthTargets ==
  {NullState, cellB, cellC, cellD, cellE,
   Vertex(-1200, -800, 400, 400), Vertex(1200, -800, 400, 400),
   Vertex(-1200, 800, 400, 400), Vertex(600, 0, 400, 400),
   [cellB EXCEPT !.isEdge = TRUE],
   [cellB EXCEPT !.portConstraint = DIRECTION_MASK_EAST],
   [cellC EXCEPT !.portConstraint = DIRECTION_MASK_WEST]}

\* the fixed point of a terminal: none, or the middle of a side
fixedPoints(s, side) ==
  IF s.isNull THEN {Null, Pt(400, 200)}
  ELSE {Null, IF side = "east" THEN Pt(s.x + s.width, s.y + Half(s.height))
              ELSE Pt(s.x, s.y + Half(s.height))}

OrthInputs ==
  {[DefaultInput EXCEPT !.source = atScale(i[1], i[5]), !.target = atScale(i[2], i[5]),
                        !.p0 = pointAtScale(i[3], i[5]), !.pe = pointAtScale(i[4], i[5]),
                        !.hints = i[6], !.scale = i[5], !.jettySize = i[7]] :
     i \in {j \in OrthSources \X OrthTargets \X {Null, Pt(400, 200)}
                   \X {Null, Pt(2000, 200), Pt(0, 1400), Pt(1200, 1000), Pt(450, 200)}
                   \X Scales \X {<< >>, <<Pt(1000, 600)>>} \X {Unset, 20} :
              /\ j[3] \in fixedPoints(j[1], "east")
              /\ j[4] \in fixedPoints(j[2], "west") \cup {Pt(450, 200)}
              /\ (j[6] # << >> => j[7] = Unset /\ j[5] = 1)}}

\* the buffers and the choices an OrthConnector call leaves behind
orthRecord(out) ==
  [NoOrth EXCEPT !.walked = out.walked, !.normalised = out.normalised,
                 !.dir = out.dir, !.quad = out.quad,
                 !.sourceIndex = out.sourceIndex, !.targetIndex = out.targetIndex,
                 !.emitted = out.emitted, !.pattern = out.pattern,
                 !.dx = out.dx, !.dy = out.dy, !.generated = out.generated,
                 !.dir0 = out.dir0, !.portConstraint = out.portConstraint,
                 !.prefOrdering = out.prefOrdering, !.divisors = out.divisors]

\* port constraints of more than one direction
PortMasks ==
  {DIRECTION_MASK_NORTH + DIRECTION_MASK_SOUTH,
   DIRECTION_MASK_WEST + DIRECTION_MASK_EAST,
   DIRECTION_MASK_WEST + DIRECTION_MASK_NORTH}

\* floating terminals with port constraints, the target on each side of
\* the source and over it
PortInputs ==
  {[DefaultInput EXCEPT !.source = [cellA EXCEPT !.portConstraint = ms],
                        !.target = [t EXCEPT !.portConstraint = mt]] :
     ms \in PortMasks \cup {DIRECTION_MASK_SOUTH},
     mt \in PortMasks \cup {Unset, DIRECTION_MASK_EAST},
     t \in {cellB, cellC, cellD, cellE, Vertex(-1200, -800, 400, 400)}}

\* terminals of width 0 or of height 0
lineV == Vertex(0, 0, 0, 400)

lineH == Vertex(0, 0, 400, 0)

lineT == Vertex(1200, 800, 0, 400)

\* a terminal of size 0 in one dimension with a connection point fixed on
\* it, at an end or in the middle
DegenerateInputs ==
  {[DefaultInput EXCEPT !.source = atScale(i[1], i[5]), !.target = atScale(i[2], i[5]),
                        !.p0 = pointAtScale(i[3], i[5]), !.pe = pointAtScale(i[4], i[5]),
                        !.scale = i[5]] :
     i \in ({lineV} \X {cellB, cellC, cellD} \X {Pt(0, 0), Pt(0, 200)} \X {Null}
              \X Scales)
         \cup ({lineH} \X {cellB, cellC, cellD} \X {Pt(0, 0), Pt(200, 0)} \X {Null}
                 \X Scales)
         \cup ({cellA} \X {lineT} \X {Null} \X {Pt(1200, 800), Pt(1200, 1000)}
                 \X Scales)}

CallOrthConnector ==
  /\ pc = "idle"
  /\ \E inp \in OrthInputs \cup PortInputs \cup DegenerateInputs : \E r0 \in InitialResults(inp) :
       With(OrthConnector(inp, r0, buf), LAMBDA out :
         /\ Finish("OrthConnector", inp, r0, out, out.via)
         /\ buf' = out.buf
         /\ orth' = orthRecord(out))
  /\ UNCHANGED search

\* the direction masks and the quadrants getRoutePattern is called with
Masks == {DIRECTION_MASK_NONE, DIRECTION_MASK_WEST, DIRECTION_MASK_NORTH,
          DIRECTION_MASK_SOUTH, DIRECTION_MASK_EAST}

Quads == 0..3

CallGetRoutePattern ==
  /\ pc = "idle"
  /\ \E d0 \in Masks, d1 \in Masks, quad \in Quads, dx \in {0, 100}, dy \in {0, 100} :
       LET out == getRoutePattern(<<d0, d1>>, quad, dx, dy)
       IN /\ pc' = "done"
          /\ connector' = "getRoutePattern"
          /\ threw' = out.threw
          /\ orth' = [NoOrth EXCEPT !.normalised = TRUE, !.dir = <<d0, d1>>,
                                    !.quad = quad, !.dx = dx, !.dy = dy,
                                    !.sourceIndex = out.sourceIndex,
                                    !.targetIndex = out.targetIndex,
                                    !.pattern = out.pattern]
          /\ via' = "getRoutePattern"
          /\ calls' = calls + 1
  /\ UNCHANGED <<input, result0, result, buf, search>>

\* the view of a scene: device coordinates of a cell given in local ones
place(s, scale, tr) ==
  [s EXCEPT !.x = (s.x + tr[1]) * scale, !.y = (s.y + tr[2]) * scale,
            !.width = s.width * scale, !.height = s.height * scale]

\* cells of the ManhattanConnector scenes
boxS == Vertex(0, 0, 240, 240)
boxEast == Vertex(1200, 0, 240, 240)
boxDiag == Vertex(960, 720, 240, 240)
boxFar == Vertex(1440, 0, 240, 240)
\* four walls that close a ring of grid points around boxS
walls == {Vertex(-600, -600, 120, 1600), Vertex(720, -600, 120, 1600),
          Vertex(-600, -600, 1600, 120), Vertex(-600, 720, 1600, 120)}
\* Scenario C of the specification
boxC1 == Vertex(0, 0, 200, 200)
boxC2 == Vertex(1000, 0, 200, 200)
boxC3 == Vertex(400, -500, 200, 1200)
\* a cell that covers boxS and the points around it
boxCover == Vertex(-480, -480, 1200, 1200)

\* a cell on the corner that the shortest route from boxS to boxDiag takes
boxBend == Vertex(1020, 60, 120, 120)
\* cells on the points above and below boxS and boxEast, and a bar between
\* the two
detour == {Vertex(120, 480, 0, 0), Vertex(120, -240, 0, 0),
           Vertex(1320, 480, 0, 0), Vertex(1320, -240, 0, 0),
           Vertex(840, 0, 0, 240)}

\* a cell to the east of boxS whose centre is off the search grid, four
\* units below the centre of boxS
boxSkew == Vertex(1200, 40, 240, 240)

\* [source, target, the other vertices of the view]
Scenes ==
  {<<boxS, boxEast, {}>>, <<boxS, boxDiag, {}>>, <<boxDiag, boxS, {}>>,
   <<boxC1, boxC2, {boxC3}>>, <<boxC1, boxC2, {}>>, <<boxS, boxFar, walls>>,
   <<boxS, boxEast, {boxCover}>>, <<boxEast, boxS, {boxCover}>>,
   <<boxS, boxDiag, {boxBend}>>, <<boxS, boxEast, detour>>,
   <<boxS, boxDiag, {boxCover}>>, <<boxDiag, boxS, {boxCover}>>,
   <<boxS, boxDiag, walls>>, <<boxS, boxSkew, {}>>}

Views == {[scale |-> 1, tr |-> Pt(0, 0)], [scale |-> 2, tr |-> Pt(1000, 500)]}

sceneInput(sc, v, h) ==
  [DefaultInput EXCEPT
     !.source = place(sc[1], v.scale, v.tr),
     !.target = place(sc[2], v.scale, v.tr),
     !.vertices = {place(c, v.scale, v.tr) : c \in {sc[1], sc[2]} \cup sc[3]},
     !.scale = v.scale, !.tr = v.tr, !.hints = h]

\* cells below and beside boxS
boxSouth == Vertex(0, 720, 240, 240)
boxNear == Vertex(480, 0, 240, 240)

\* values of MANHATTAN_START_DIRECTIONS and MANHATTAN_END_DIRECTIONS that
\* allow one axis only
verticalDirections == <<"north", "south">>
horizontalDirections == <<"east", "west">>

\* exitX, exitY, entryX, entryY of the edge style, in tenths
Anchors ==
  {[exitX |-> 2, exitY |-> 2, entryX |-> 2, entryY |-> 2],
   [exitX |-> 0, exitY |-> Unset, entryX |-> Unset, entryY |-> 10],
   [exitX |-> Unset, exitY |-> 5, entryX |-> 5, entryY |-> Unset]}

\* calls with the direction lists set to one axis and anchors in the style
AnchoredInputs ==
  {[sceneInput(sc, v, << >>) EXCEPT
      !.startDirections = sd, !.endDirections = ed,
      !.exitX = a.exitX, !.exitY = a.exitY,
      !.entryX = a.entryX, !.entryY = a.entryY] :
     sc \in {<<boxS, boxDiag, {}>>, <<boxS, boxSouth, {}>>, <<boxS, boxNear, {}>>},
     v \in Views, a \in Anchors,
     sd \in {verticalDirections, horizontalDirections},
     ed \in {verticalDirections, horizontalDirections}}

ManhattanInputs ==
  {sceneInput(sc, v, << >>) : sc \in Scenes, v \in Views}
    \cup AnchoredInputs
    \cup {sceneInput(<<boxS, boxDiag, {}>>, v, <<Pt(600, 120)>>) : v \in Views}
    \cup {[sceneInput(<<boxS, boxDiag, {}>>, v, << >>) EXCEPT
             !.source = NullState, !.p0 = a] :
            v \in Views, a \in {Null, Pt(240, 120)}}
    \cup {[sceneInput(<<boxS, boxDiag, {}>>, v, << >>) EXCEPT
             !.target = NullState, !.pe = Pt(960, 840)] : v \in Views}

OrthFallback_segment(inp, r0) ==
  With(SegmentConnector(inp, r0), LAMBDA out :
    /\ pc' = "done"
    /\ result' = out.res
    /\ threw' = out.threw
    /\ via' = "SegmentConnector"
    /\ UNCHANGED <<buf, orth>>)

\* the fallback of router to OrthConnector
OrthFallback(inp, r0) ==
  With(OrthConnector(inp, r0, buf), LAMBDA out :
    /\ pc' = "done"
    /\ result' = out.res
    /\ threw' = out.threw
    /\ via' = out.via
    /\ buf' = out.buf
    /\ orth' = orthRecord(out))

delegates_terminalsOnly(inp) ==
  inp.source.isNull \/ inp.target.isNull

\* "If edge is dragged after calculation, points will be filled, so
\* fallback to SegmentConnector"
delegates(inp) ==
  inp.hints # << >> \/ inp.source.isNull \/ inp.target.isNull

\* router up to the main loop of findRoute
router(inp, r0) ==
  /\ connector' = "ManhattanConnector"
  /\ input' = inp
  /\ result0' = r0
  /\ calls' = calls + 1
  /\ IF delegates(inp)
       THEN With(SegmentConnector(inp, r0), LAMBDA out :
              /\ pc' = "done"
              /\ result' = out.res
              /\ threw' = out.threw
              /\ via' = "SegmentConnector"
              /\ search' = NoSearch
              /\ UNCHANGED <<buf, orth>>)
       ELSE LET st == findRouteStart(inp)
            IN /\ search' = st
               /\ IF st.startPoints # << >> /\ st.endPoints # << >>
                    THEN /\ pc' = "search"
                         /\ result' = r0
                         /\ threw' = FALSE
                         /\ via' = "none"
                         /\ UNCHANGED <<buf, orth>>
                    ELSE OrthFallback(inp, r0)

CallManhattanConnector ==
  /\ pc = "idle"
  /\ \E inp \in ManhattanInputs : \E r0 \in InitialResults(inp) : router(inp, r0)

loopRuns_short(s) == s.openSet.items # << >> /\ s.loopsRemain > MANHATTAN_MAXIMUM_LOOPS - 10

\* while (!openSet.isEmpty() && loopsRemain > 0)
loopRuns(s) == s.openSet.items # << >> /\ s.loopsRemain > 0

\* one round of the main loop of findRoute
FindRouteLoop ==
  /\ pc = "search"
  /\ loopRuns(search)
  /\ LET currentKey == Head(search.openSet.items)
         openSet == SortedSet_pop(search.openSet)
         currentPoint == toPointFromString(currentKey)
         currentCost == search.costs[currentKey]
         previousDirectionAngle == search.currentDirectionAngle
         currentDirectionAngle ==
           IF currentKey \in DOMAIN search.parents
             THEN getDirectionAngle(search.parents[currentKey], currentPoint)
           ELSE IF search.previousDirAngle # 0 THEN search.previousDirAngle
           ELSE getDirectionAngle(search.startCenter, currentPoint)
         directionChangedAngle ==
           getDirectionChange(currentDirectionAngle,
                              getDirectionAngle(currentPoint, search.endCenter))
         atEnd == \E i \in 1..Len(search.endPoints) :
                    pointToString(search.endPoints[i]) = currentKey
         s == expandNeighbors([openSet |-> openSet, parents |-> search.parents,
                               costs |-> search.costs],
                              1, currentPoint, currentCost, currentDirectionAngle,
                              previousDirectionAngle, search.obstacleMap,
                              search.endPoints)
     IN IF atEnd /\ (currentPoint = search.endCenter \/ directionChangedAngle < 180)
          THEN /\ pc' = "reconstruct"
               /\ search' = [search EXCEPT
                    !.openSet = openSet,
                    !.pops = @ + 1,
                    !.previousDirectionAngle = previousDirectionAngle,
                    !.currentDirectionAngle = currentDirectionAngle,
                    !.previousDirAngle = currentDirectionAngle,
                    !.found = TRUE,
                    !.route = << >>,
                    !.current = currentPoint,
                    !.endPoint = currentPoint,
                    !.previousDirection =
                      normalizePoint(getDifferencePoint(search.endCenter, currentPoint))]
          ELSE /\ pc' = "search"
               /\ search' = [search EXCEPT
                    !.openSet = s.openSet,
                    !.parents = s.parents,
                    !.costs = s.costs,
                    !.pops = @ + 1,
                    !.previousDirectionAngle = previousDirectionAngle,
                    !.currentDirectionAngle = currentDirectionAngle,
                    !.loopsRemain = @ - 1]
  /\ UNCHANGED <<connector, input, result0, result, threw, buf, orth, via, calls>>

\* the main loop ends without a route: findRoute returns null
FindRouteNull ==
  /\ pc = "search"
  /\ ~loopRuns(search)
  /\ OrthFallback(input, result0)
  /\ UNCHANGED <<connector, input, result0, search, calls>>

\* one round of the loop of reconstructRoute
ReconstructLoop ==
  /\ pc = "reconstruct"
  /\ pointToString(search.current) \in DOMAIN search.parents
  /\ LET current == search.current
         parent == search.parents[pointToString(current)]
         direction == normalizePoint(getDifferencePoint(current, parent))
         turn == direction # search.previousDirection
     IN search' = [search EXCEPT
          !.route = IF turn THEN <<current>> \o @ ELSE @,
          !.previousDirection = IF turn THEN direction ELSE @,
          !.current = parent]
  /\ UNCHANGED <<pc, connector, input, result0, result, threw, buf, orth, via, calls>>

\* the end of reconstructRoute and the rest of router
ReconstructReturn ==
  /\ pc = "reconstruct"
  /\ pointToString(search.current) \notin DOMAIN search.parents
  /\ LET current == search.current
         startDirection == normalizePoint(getDifferencePoint(current, search.startCenter))
         routePoints == IF startDirection # search.previousDirection
                          THEN <<current>> \o search.route ELSE search.route
     IN /\ search' = [search EXCEPT !.route = routePoints]
        /\ IF routePoints = << >>
             THEN OrthFallback(input, result0)
             ELSE /\ pc' = "done"
                  /\ result' = result0 \o scaleRoute(alignRoute(routePoints, input), input)
                  /\ threw' = FALSE
                  /\ via' = "ManhattanConnector"
                  /\ UNCHANGED <<buf, orth>>
  /\ UNCHANGED <<connector, input, result0, calls>>

Next ==
  \/ CallEntityRelation
  \/ CallLoop
  \/ CallElbowConnector
  \/ CallSideToSide
  \/ CallTopToBottom
  \/ CallSegmentConnector
  \/ CallOrthConnector
  \/ CallGetRoutePattern
  \/ CallManhattanConnector
  \/ FindRouteLoop
  \/ FindRouteNull
  \/ ReconstructLoop
  \/ ReconstructReturn

Spec == Init /\ [][Next]_vars

(***************************************************************************)
(* SpecLong: ManhattanConnector on scenes where the target cannot be       *)
(* reached, so that findRoute uses up MANHATTAN_MAXIMUM_LOOPS              *)
(***************************************************************************)
LongInputs ==
  {sceneInput(sc, [scale |-> 1, tr |-> Pt(0, 0)], << >>) :
     sc \in {<<boxFar, boxS, walls>>, <<boxS, boxFar, walls>>, <<boxS, boxDiag, {}>>,
             <<boxS, boxDiag, {boxCover}>>, <<boxDiag, boxS, {boxCover}>>,
             <<boxS, boxDiag, walls>>, <<boxDiag, boxS, walls>>}}

CallManhattanLong ==
  /\ pc = "idle"
  /\ \E inp \in LongInputs : router(inp, <<inp.p0>>)

NextLong ==
  \/ CallManhattanLong
  \/ FindRouteLoop
  \/ FindRouteNull
  \/ ReconstructLoop
  \/ ReconstructReturn

\* the loop of a running call is not left standing
SpecLong == Init /\ [][NextLong]_vars

(***************************************************************************)
(* SpecSeq: calls of OrthConnector and ManhattanConnector one after        *)
(* another.  The static buffers outlive a call; everything else is local   *)
(* to it.                                                                  *)
(***************************************************************************)
OrthSeqInputs ==
  {[DefaultInput EXCEPT !.source = cellA, !.target = t, !.jettySize = j] :
     t \in {cellB, cellC, cellD, Vertex(-1200, -800, 400, 400)}, j \in {Unset, 20}}
    \cup {[DefaultInput EXCEPT !.source = cellA, !.target = cellB,
                               !.hints = <<Pt(1000, 600)>>],
          [DefaultInput EXCEPT
             !.source = [cellA EXCEPT !.portConstraint = DIRECTION_MASK_WEST],
             !.target = cellB],
          [DefaultInput EXCEPT !.source = cellD, !.target = cellA],
          [DefaultInput EXCEPT !.source = cellC,
                               !.target = Vertex(-1200, -800, 400, 400)]}

ManhattanSeqInputs ==
  {sceneInput(sc, [scale |-> 1, tr |-> Pt(0, 0)], << >>) :
     sc \in {<<boxS, boxEast, {}>>, <<boxS, boxDiag, {}>>, <<boxS, boxFar, walls>>}}

CallOrthSeq ==
  /\ pc = "idle"
  /\ \E inp \in OrthSeqInputs :
       With(OrthConnector(inp, <<inp.p0>>, buf), LAMBDA out :
         /\ Finish("OrthConnector", inp, <<inp.p0>>, out, out.via)
         /\ buf' = out.buf
         /\ orth' = orthRecord(out))
  /\ UNCHANGED search

CallManhattanSeq ==
  /\ pc = "idle"
  /\ \E inp \in ManhattanSeqInputs : router(inp, <<inp.p0>>)

\* the call has returned: its locals are gone, the static members stay
Return ==
  /\ pc = "done"
  /\ calls < MaxCalls
  /\ pc' = "idle"
  /\ UNCHANGED <<connector, input, result0, result, threw, buf, orth, via, search, calls>>

NextSeq ==
  \/ CallOrthSeq
  \/ CallManhattanSeq
  \/ FindRouteLoop
  \/ FindRouteNull
  \/ ReconstructLoop
  \/ ReconstructReturn
  \/ Return

SpecSeq == Init /\ [][NextSeq]_vars

(***************************************************************************)
(* The contract of the connectors                                          *)
(***************************************************************************)
\* the points a finished call added behind the entries it was handed
appended == SubSeq(result, Len(result0) + 1, Len(result))

\* C1: a call only appends to result: every entry that was in result
\* before the call is there afterwards, at the same index and with the
\* same coordinates
C1_OnlyAppends ==
  pc = "done" =>
    /\ Len(result) >= Len(result0)
    /\ SubSeq(result, 1, Len(result0)) = result0

\* C2: after a call of a router no two consecutive points of result are
\* equal
C2_NoConsecutiveDuplicates ==
  pc = "done" /\ connector # "getRoutePattern" =>
    \A i \in 1..(Len(result) - 1) :
      result[i] = Null \/ result[i + 1] = Null \/ result[i] # result[i + 1]

\* C3: no connector ends in a thrown error for a null terminal, an absent
\* fixed point or an empty hint list
C3_NeverThrows ==
  pc = "done" /\ connector # "getRoutePattern" => ~threw

\* what OrthConnector returns for the inputs of the call on buffers that no
\* earlier call has written
freshOrth == OrthConnector(input, result0, InitBuffers)

\* a finished call that ran OrthConnector, directly or as the fallback of
\* router after findRoute
orthRan ==
  /\ pc = "done"
  /\ \/ connector = "OrthConnector"
     \/ /\ connector = "ManhattanConnector"
        /\ search.startCenter # Null
        /\ via # "ManhattanConnector"

\* C4: in a sequence of calls the result of an OrthConnector call, made
\* directly or as the fallback of ManhattanConnector, is the result of the
\* same call on untouched buffers, and the search of a ManhattanConnector
\* call starts from previousDirAngle = 0
C4_CallsIndependent ==
  /\ orthRan => result = freshOrth.res /\ threw = freshOrth.threw
  /\ pc = "search" /\ search.pops = 0 => search.previousDirAngle = 0

\* a second call has walked a pattern and left other values in wayPoints1
\* than it leaves in untouched buffers
C4_Witness ==
  /\ pc = "done"
  /\ calls = MaxCalls
  /\ via = "OrthConnector"
  /\ Len(appended) > 0
  /\ buf.wayPoints1 # freshOrth.buf.wayPoints1

\* the calls that router hands to SegmentConnector at once
C5_Delegated ==
  /\ pc = "done"
  /\ connector = "ManhattanConnector"
  /\ (input.hints # << >> \/ input.source.isNull \/ input.target.isNull)

\* C5: ManhattanConnector with hints, or with a null source or target,
\* leaves the result that SegmentConnector leaves for the same edge state,
\* terminals, hints and initial result
C5_SameAsSegment ==
  C5_Delegated =>
    /\ result = SegmentConnector(input, result0).res
    /\ threw = SegmentConnector(input, result0).threw

C5_Witness ==
  /\ C5_Delegated
  /\ input.hints # << >>
  /\ ~input.source.isNull /\ ~input.target.isNull
  /\ Len(appended) > 0

\* the budget of the main loop of findRoute: every round pops one point, and
\* a search that ends without accepting an end point has emptied the open
\* set or used up loopsRemain, returns null and leaves the route to the
\* fallback
C6_Budget ==
  /\ search.pops <= MANHATTAN_MAXIMUM_LOOPS
  /\ pc = "search" => search.pops + search.loopsRemain = MANHATTAN_MAXIMUM_LOOPS
  /\ pc = "done" /\ connector = "ManhattanConnector" /\ search.startCenter # Null
       /\ ~search.found
       => /\ search.openSet.items = << >> \/ search.loopsRemain = 0
          /\ search.route = << >>
          /\ via \in {"OrthConnector", "SegmentConnector"}

\* a round of the loop either leaves it or takes one from loopsRemain, which
\* stays at or above zero: the loop cannot go round for ever
C6_Round ==
  pc = "search" /\ pc' = "search"
    => /\ search'.loopsRemain = search.loopsRemain - 1
       /\ search'.loopsRemain >= 0
       /\ search'.pops = search.pops + 1

\* C6: the main loop of findRoute always ends and pops at most
\* MANHATTAN_MAXIMUM_LOOPS = 2000 points in a call; when no end point is
\* accepted before the open set is empty or the budget is zero, findRoute
\* returns null
C6_Terminates == []C6_Budget /\ [][C6_Round]_vars

\* the budget is used up with points still open
C6_Witness ==
  /\ pc = "done"
  /\ ~search.found
  /\ search.openSet.items # << >>
  /\ search.loopsRemain = 0
  /\ search.pops = MANHATTAN_MAXIMUM_LOOPS

\* the padded rectangles in the obstacle map of the call
obstacles == UNION {search.obstacleMap[k] : k \in DOMAIN search.obstacleMap}

strictlyInside(rect, p) ==
  /\ p[1] > rect.x
  /\ p[1] < rect.x + rect.width
  /\ p[2] > rect.y
  /\ p[2] < rect.y + rect.height

\* C7: no point of a route found by findRoute, in the coordinates of the
\* search, lies strictly inside a padded rectangle of the obstacle map built
\* for the call
C7_AvoidsObstacles ==
  pc = "done" /\ via = "ManhattanConnector"
    => \A i \in 1..Len(search.route) : \A b \in obstacles :
         ~strictlyInside(b, search.route[i])

C7_Witness ==
  /\ pc = "done"
  /\ via = "ManhattanConnector"
  /\ Cardinality(input.vertices) >= 3
  /\ Len(search.route) >= 2
  /\ Cardinality(obstacles) = Cardinality(input.vertices)

\* no segment of r runs against the segment before it
noReversal(r) ==
  \A i \in 1..(Len(r) - 2) :
    (r[i + 1][1] - r[i][1]) * (r[i + 2][1] - r[i + 1][1])
      + (r[i + 1][2] - r[i][2]) * (r[i + 2][2] - r[i + 1][2]) >= 0

\* C8: three consecutive points a, b, c of a route of findRoute never turn
\* by more than 90 degrees: the segment b->c does not run against a->b
C8_NoReversal ==
  /\ search.found => noReversal(search.route)
  /\ pc = "done" /\ via = "ManhattanConnector" => noReversal(appended)

C8_Witness ==
  /\ pc = "done"
  /\ via = "ManhattanConnector"
  /\ Len(appended) >= 4
  /\ appended[1][2] = appended[2][2] \/ appended[1][1] = appended[2][1]

\* C9: the indices OrthConnector and getRoutePattern take into routePatterns
\* are in 1..4 for every direction pair and quadrant, and the pattern read
\* is defined
C9_IndicesInTable ==
  orth.normalised
    => /\ orth.sourceIndex \in 1..4
       /\ orth.targetIndex \in 1..4
       /\ connector = "getRoutePattern" => ~threw /\ orth.pattern # << >>

C9_Witness ==
  /\ connector = "getRoutePattern"
  /\ pc = "done"
  /\ orth.dir = <<0, DIRECTION_MASK_EAST>>
  /\ orth.quad = 3
  /\ orth.sourceIndex = 1
  /\ orth.targetIndex = 4

ScenarioA == [DefaultInput EXCEPT !.source = cellA, !.target = cellB]

\* C10: Scenario A, source (0, 0, 40, 40) and target (200, 0, 40, 40) with
\* floating ends, no hints and the default style: OrthConnector leaves the
\* source to the east, enters the target from the west and appends at most
\* one point
C10_ScenarioA ==
  pc = "done" /\ connector = "OrthConnector" /\ input = ScenarioA
    => /\ ~threw
       /\ orth.walked
       /\ orth.dir = <<DIRECTION_MASK_EAST, DIRECTION_MASK_WEST>>
       /\ Len(appended) \in {0, 1}
       /\ SubSeq(result, 1, Len(result0)) = result0

C10_Witness ==
  /\ pc = "done"
  /\ connector = "OrthConnector"
  /\ input = ScenarioA
  /\ result0 = << >>
  /\ orth.walked
  /\ orth.dir[1] = DIRECTION_MASK_EAST

\* C11: Scenario B, Loop with a source shape, a floating end, no hints and
\* the style direction = north: the call appends exactly two points, both
\* above the top edge of the shape, at the same height and at the same
\* distance to the left and to the right of the routing centre of the shape
C11_ScenarioB ==
  (/\ pc = "done"
   /\ connector = "Loop"
   /\ input.direction = "north"
   /\ input.hints = << >>
   /\ ~input.source.isNull
   /\ (input.p0 = Null \/ input.pe = Null)
   /\ getValue(input.segment, gridSize * Tenth) > 0)
    => /\ ~threw
       /\ Len(result) = Len(result0) + 2
       /\ SubSeq(result, 1, Len(result0)) = result0
       /\ appended[1][2] = appended[2][2]
       /\ appended[1][2] < input.source.y
       /\ appended[1][1] < appended[2][1]
       /\ appended[1][1] + appended[2][1] = 2 * getRoutingCenterX(input.source)

C11_Witness ==
  /\ pc = "done"
  /\ connector = "Loop"
  /\ input.direction = "north"
  /\ input.hints = << >>
  /\ input.source = atScale(cellD, 2)
  /\ input.p0 = Null
  /\ input.segment = 100
  /\ appended = <<Pt(2600, 1200), Pt(3000, 1200)>>
\* Scenario C in a view: source (0, 0, 20, 20), target (100, 0, 20, 20) and
\* one more vertex (40, -50, 20, 120) between the two
ScenarioC(v) == sceneInput(<<boxC1, boxC2, {boxC3}>>, v, << >>)

\* the segment from p to q, parallel to an axis, runs through the inside
\* of rect
crosses(rect, p, q) ==
  \/ /\ p[2] = q[2]
     /\ p[2] > rect.y /\ p[2] < rect.y + rect.height
     /\ Min(p[1], q[1]) < rect.x + rect.width /\ Max(p[1], q[1]) > rect.x
  \/ /\ p[1] = q[1]
     /\ p[1] > rect.x /\ p[1] < rect.x + rect.width
     /\ Min(p[2], q[2]) < rect.y + rect.height /\ Max(p[2], q[2]) > rect.y

\* C12: Scenario C: ManhattanConnector finds a route within
\* MANHATTAN_MAXIMUM_LOOPS rounds; the route has a waypoint above the top
\* or below the bottom of the vertex in between, and no segment of the
\* route runs through that vertex
C12_ScenarioC ==
  \A v \in Views :
    pc = "done" /\ connector = "ManhattanConnector" /\ input = ScenarioC(v)
      => LET obstacle == place(boxC3, v.scale, v.tr)
         IN /\ search.found
            /\ via = "ManhattanConnector"
            /\ ~threw
            /\ search.pops <= MANHATTAN_MAXIMUM_LOOPS
            /\ search.loopsRemain > 0
            /\ \E i \in 1..Len(appended) :
                 \/ appended[i][2] < obstacle.y
                 \/ appended[i][2] > obstacle.y + obstacle.height
            /\ \A i \in 1..(Len(appended) - 1) :
                 ~crosses(obstacle, appended[i], appended[i + 1])

C12_Witness ==
  /\ pc = "done"
  /\ connector = "ManhattanConnector"
  /\ input = ScenarioC([scale |-> 1, tr |-> Pt(0, 0)])
  /\ via = "ManhattanConnector"
  /\ appended = <<Pt(120, 840), Pt(1080, 840)>>
\* a finished call of SegmentConnector that did not throw
segmentRan == pc = "done" /\ connector = "SegmentConnector" /\ ~threw

\* the result array of the call after its last pushPoint, and the number
\* of points its loop over the hints pushed
pushedPoints == SegmentConnector(input, result0).pushed

hintPushes == SegmentConnector(input, result0).hintPushes

\* b is outside the tolerance of pushPoint around a
outsideTolerance(a, b, scale) ==
  \/ Abs(a[1] - b[1]) >= tol
  \/ Abs(a[2] - b[2]) >= Max(1 * Tenth, scale * Tenth)

\* every point pushed by pushPoint lies outside the tolerance around
\* lastPushed: around result[0] as handed over for the first push, around
\* the point pushed before for the others
pushesApart ==
  segmentRan =>
    \A i \in (Len(result0) + 1)..Len(pushedPoints) :
      LET lastPushed == IF i > Len(result0) + 1 THEN pushedPoints[i - 1]
                        ELSE IF Len(result0) > 0 THEN result0[1]
                        ELSE Null
      IN lastPushed = Null
           \/ outsideTolerance(lastPushed, pushedPoints[i], input.scale)

\* two hints that differ by half a unit in x (k = 1) or in y (k = 2) and
\* are equal in the other coordinate
halfUnitApart(h, k) ==
  /\ Len(h) = 2
  /\ Abs(h[1][k] - h[2][k]) * 2 = Tenth
  /\ h[1][3 - k] = h[2][3 - k]

mapBuilt == connector = "ManhattanConnector" /\ search.startCenter # Null

\* the padded bounds of the vertices of the view that are not a terminal
\* of the edge
paddedOthers ==
  {moveAndExpand(getCellAbsoluteBounds(s, input), MANHATTAN_PADDING_BOX) :
     s \in input.vertices \ {input.source, input.target}}

\* C14: the obstacle map of a ManhattanConnector call holds the padded
\* bounds of every vertex other than the terminals of the edge, and not
\* the padded bounds of the source and of the target
C14_TerminalsNoObstacles ==
  mapBuilt => obstacles = paddedOthers
\* both coordinates of p are whole multiples of MANHATTAN_STEP
onGrid(p) ==
  /\ p[1] % (MANHATTAN_STEP * Tenth) = 0
  /\ p[2] % (MANHATTAN_STEP * Tenth) = 0

\* the points of the Manhattan search, in local coordinates: the start and
\* end candidates, every point that was given a place in the open set,
\* the parents and the points of the reconstructed route
searchOnGrid ==
  mapBuilt =>
    /\ \A i \in 1..Len(search.startPoints) : onGrid(search.startPoints[i])
    /\ \A i \in 1..Len(search.endPoints) : onGrid(search.endPoints[i])
    /\ \A k \in DOMAIN search.openSet.hash : onGrid(toPointFromString(k))
    /\ \A k \in DOMAIN search.parents : onGrid(search.parents[k])
    /\ \A i \in 1..Len(search.route) : onGrid(search.route[i])
    /\ search.current # Null => onGrid(search.current)

\* C15 as stated: the points of the Manhattan search and the points of the
\* pattern walk of OrthConnector (the points it emits at scale 1) are on
\* whole multiples of MANHATTAN_STEP in local coordinates
C15_OnRoutingGrid ==
  /\ searchOnGrid
  /\ pc = "done" /\ connector = "OrthConnector" /\ orth.walked /\ input.scale = 1
       => \A i \in 1..Len(orth.emitted) : onGrid(orth.emitted[i])

\* the style of the edge has no exitX, exitY, entryX, entryY
anchorsUnset ==
  /\ input.exitX = Unset /\ input.exitY = Unset
  /\ input.entryX = Unset /\ input.entryY = Unset

\* C15 amended: every point of the Manhattan search is on whole multiples
\* of MANHATTAN_STEP in local coordinates before the anchor alignment, and
\* so is every point of the route that ManhattanConnector scales and
\* appends without aligning it to an anchor (the points between the first
\* and the last, and all points when the style has no anchors)
C15_SearchOnGrid ==
  /\ searchOnGrid
  /\ pc = "done" /\ via = "ManhattanConnector"
       => /\ Len(appended) = Len(search.route)
          /\ \A i \in 1..Len(appended) :
               (anchorsUnset \/ (1 < i /\ i < Len(appended))) =>
                 appended[i] = Pt((search.route[i][1] + input.tr[1]) * input.scale,
                                  (search.route[i][2] + input.tr[2]) * input.scale)

\* a route with a bend, found in a view at scale 2 with a translation
C15_Witness ==
  /\ pc = "done"
  /\ via = "ManhattanConnector"
  /\ input.scale = 2
  /\ Len(search.route) >= 2
  /\ appended[1] # search.route[1]
  /\ search.pops > 10
\* the condition under which OrthConnector hands the call to
\* SegmentConnector: the fixed points are closer than the two buffers
\* together, or there are hints and orthPointsFallback is set, or a
\* terminal is an edge
orthDelegates(inp) ==
  LET p0 == scalePoint(inp.p0, inp.scale)
      pe == scalePoint(inp.pe, inp.scale)
      sb == getJettySize(inp, TRUE)
      tb == getJettySize(inp, FALSE)
      totalBuffer == IF ~inp.source.isNull /\ inp.loop THEN 2 * Max(sb, tb) ELSE sb + tb
  IN \/ /\ p0 # Null /\ pe # Null
        /\ (pe[1] - p0[1]) * (pe[1] - p0[1]) + (pe[2] - p0[2]) * (pe[2] - p0[2])
             < totalBuffer * totalBuffer
     \/ (orthPointsFallback /\ Len(inp.hints) > 0)
     \/ (~inp.source.isNull /\ inp.source.isEdge)
     \/ (~inp.target.isNull /\ inp.target.isEdge)

\* C16: a call of OrthConnector under that condition leaves what
\* SegmentConnector leaves on the same inputs, and a call outside of it
\* does not run SegmentConnector
C16_DelegatesToSegment ==
  pc = "done" /\ connector = "OrthConnector"
    => IF orthDelegates(input)
         THEN /\ result = SegmentConnector(input, result0).res
              /\ threw = SegmentConnector(input, result0).threw
         ELSE via # "SegmentConnector"
\* C17: the pattern that a call of OrthConnector walks is the one that
\* getRoutePattern gives for its directions, quadrant and centre offset:
\* the entry of inlineRoutePatterns where dx = 0 or dy = 0 and there is
\* one, the entry of routePatterns otherwise
C17_InlinePattern ==
  pc = "done" /\ connector = "OrthConnector" /\ orth.walked
    => orth.pattern = getRoutePattern(orth.dir, orth.quad, orth.dx, orth.dy).pattern
\* a round of the main loop of findRoute that expands the popped point:
\* no neighbour that lies more than
\* MANHATTAN_MAX_ALLOWED_DIRECTION_CHANGE off the direction of the popped
\* point is given the popped point as its parent
turnLimitKept ==
  pc = "search" /\ pc' = "search"
    => LET currentPoint == toPointFromString(Head(search.openSet.items))
           currentDirectionAngle == search'.currentDirectionAngle
       IN \A i \in 1..Len(directions) :
            getDirectionChange(currentDirectionAngle, directions[i].angle)
                > MANHATTAN_MAX_ALLOWED_DIRECTION_CHANGE
              => LET neighborKey ==
                       pointToString(movePoint(currentPoint, directions[i].offsetX,
                                               directions[i].offsetY))
                 IN ~(/\ neighborKey \in DOMAIN search'.parents
                      /\ search'.parents[neighborKey] = currentPoint)

\* C18: in every round of the search, the first one and the ones after a
\* point with direction angle 0 included, a neighbour that turns by more
\* than 90 degrees is skipped
C18_TurnLimit == [][turnLimitKept]_vars

\* the search of the call ended without a route: findRoute returned null
noRoute ==
  /\ pc = "done"
  /\ connector = "ManhattanConnector"
  /\ ~delegates(input)
  /\ ~search.found

\* C19: when the search of ManhattanConnector finds no route (no accessible
\* start or end point, the open set emptied, or the loops used up) for two
\* terminals and no hints, the call leaves in result, and throws, what
\* OrthConnector does on the same edge state and result array, and the
\* result is written by OrthConnector or SegmentConnector in that one call
\* of ManhattanConnector
C19_FallbackIsOrth ==
  noRoute =>
    /\ With(OrthConnector(input, result0, InitBuffers), LAMBDA out :
            result = out.res /\ threw = out.threw /\ via = out.via)
    /\ via \in {"OrthConnector", "SegmentConnector"}
    /\ calls = 1

\* the open set emptied after some rounds and OrthConnector wrote points
C19_Witness ==
  /\ noRoute
  /\ search.pops > 0
  /\ search.openSet.items = << >>
  /\ via = "OrthConnector"
  /\ ~threw
  /\ Len(result) > Len(result0)

\* the call ended with the route of the search in result
routed ==
  /\ pc = "done"
  /\ connector = "ManhattanConnector"
  /\ via = "ManhattanConnector"

\* the list of directions leaves out east and west
onlyVertical(list) == \A i \in 1..Len(list) : list[i] \notin {"east", "west"}

\* the list of directions leaves out north and south
onlyHorizontal(list) == \A i \in 1..Len(list) : list[i] \notin {"north", "south"}

\* origin + fraction * size of a terminal, translated and scaled as the route
\* points are; fraction in tenths
anchorAt(origin, size, fraction, shift) ==
  ScaleUp(origin + (size * fraction) \div Tenth + shift, input.scale)

\* the point appended at index i has the coordinates that the anchors of
\* the terminal cell ask for, on the axes that list restricts
anchored(i, cell, list, fx, fy) ==
  LET b == getCellAbsoluteBounds(cell, input)
  IN /\ (onlyVertical(list) /\ fx # Unset)
          => appended[i][1] = anchorAt(b.x, b.width, fx, input.tr[1])
     /\ (onlyHorizontal(list) /\ fy # Unset)
          => appended[i][2] = anchorAt(b.y, b.height, fy, input.tr[2])

\* C20: in ManhattanConnector, when the directions of a terminal are
\* restricted to one axis and the style gives a fractional position, the
\* coordinate of the first route point (exitX, exitY, source) and of the
\* last route point (entryX, entryY, target) is terminal origin +
\* fraction * terminal size before scaling, and the last point is aligned
\* to the target also when the route has one point only
C20_AlignsOnePoint ==
  routed =>
    /\ Len(appended) = Len(search.route)
    /\ anchored(1, input.source, input.startDirections, input.exitX, input.exitY)
    /\ anchored(Len(appended), input.target, input.endDirections,
                input.entryX, input.entryY)

\* C20: as amended, the last point is aligned to the target when the route
\* has more than one point; the first point is aligned to the source in
\* every route
C20_AlignsEnds ==
  routed =>
    /\ Len(appended) = Len(search.route)
    /\ anchored(1, input.source, input.startDirections, input.exitX, input.exitY)
    /\ Len(appended) > 1 =>
         anchored(Len(appended), input.target, input.endDirections,
                  input.entryX, input.entryY)

\* a route of three points whose first point was moved to exitX and whose
\* last point was moved to entryY
C20_Witness ==
  /\ routed
  /\ Len(search.route) > 2
  /\ onlyVertical(input.startDirections) /\ input.exitX # Unset
  /\ onlyHorizontal(input.endDirections) /\ input.entryY # Unset
  /\ appended # scaleRoute(search.route, input)
  /\ appended[1][1] # scaleRoute(search.route, input)[1][1]
  /\ appended[Len(appended)][2] # scaleRoute(search.route, input)[Len(appended)][2]

\* EntityRelation ran with a source and a target, each a terminal or a
\* fixed point
entityResolved ==
  /\ pc = "done"
  /\ connector = "EntityRelation"
  /\ input.p0 # Null \/ ~input.source.isNull
  /\ input.pe # Null \/ ~input.target.isNull

\* isSourceLeft, isTargetLeft, dep and arr of the call
entitySides == EntityRelation(input, result0)

\* the departure point lies beyond the arrival point, seen from the side
\* the source exits on
entityCrossed ==
  (entitySides.dep[1] < entitySides.arr[1]) = entitySides.isSourceLeft

\* the four points dep, (dep.x, midY), (arr.x, midY), arr with
\* midY = y0 + (ye - y0) / 2
entityJog ==
  /\ Len(appended) = 4
  /\ appended[1] = entitySides.dep
  /\ appended[4] = entitySides.arr
  /\ appended[2] = Pt(appended[1][1],
                      appended[1][2] + Half(appended[4][2] - appended[1][2]))
  /\ appended[3] = Pt(appended[4][1], appended[2][2])

\* C21: EntityRelation with both terminals resolved appends the four
\* points with the jog at the midpoint height exactly when source and
\* target exit on the same side and are not x-aligned for a direct path,
\* two points in every other resolved case, and never one or three points
C21_JogOnSameSide ==
  entityResolved =>
    IF entitySides.isSourceLeft = entitySides.isTargetLeft /\ entityCrossed
      THEN entityJog
      ELSE Len(appended) = 2

\* C21: as amended, the four points with the jog are appended exactly when
\* source and target exit on opposite sides and the departure point lies
\* beyond the arrival point; two points are appended in every other
\* resolved case, and never one or three points
C21_JogOnOppositeSides ==
  entityResolved =>
    IF entitySides.isSourceLeft # entitySides.isTargetLeft /\ entityCrossed
      THEN entityJog
      ELSE Len(appended) = 2

\* a call that appended the four points with a jog between two heights
C21_Witness ==
  /\ entityResolved
  /\ entitySides.isSourceLeft # entitySides.isTargetLeft
  /\ entityCrossed
  /\ Len(appended) = 4
  /\ appended[1][2] # appended[4][2]

\* the terminals that SideToSide and TopToBottom route between: a fixed
\* point of the edge stands in for the shape
elbowSource == IF input.p0 # Null THEN PointState(input.p0) ELSE input.source

elbowTarget == IF input.pe # Null THEN PointState(input.pe) ELSE input.target

\* C22: SideToSide and TopToBottom append no point that lies inside the
\* source or the target shape, with or without a hint, for overlapping
\* shapes too, and also when one entry is in result after the two main
\* pushes
C22_NeverInsideShapes ==
  (/\ pc = "done"
   /\ connector \in {"SideToSide", "TopToBottom"})
    => \A i \in 1..Len(appended) :
         /\ ~contains(elbowSource, appended[i][1], appended[i][2])
         /\ ~contains(elbowTarget, appended[i][1], appended[i][2])

\* Loop ran with a non-empty list of hints
loopWithHints ==
  /\ pc = "done"
  /\ connector = "Loop"
  /\ input.hints # << >>

\* the hints under the transform of the view: translated, then scaled
transformedHints ==
  [i \in 1..Len(input.hints) |->
     Pt(input.scale * (input.hints[i][1] + input.tr[1]),
        input.scale * (input.hints[i][2] + input.tr[2]))]

\* C23: whenever the hint list of Loop is non-empty, the points appended
\* are the transformed hints, one per hint and in the order of the hints,
\* with both fixed points of the edge present and with a floating end
C23_HintsVerbatim ==
  loopWithHints => appended = transformedHints

\* C23: as amended, the transformed hints are appended, one per hint and
\* in order, when the first and the last fixed point are both present;
\* with a floating end and a source the two points of the loop are
\* appended instead, and with a floating end and no source nothing
C23_HintsVerbatimWhenFixed ==
  loopWithHints =>
    IF input.p0 # Null /\ input.pe # Null THEN appended = transformedHints
    ELSE IF input.source.isNull THEN appended = << >>
    ELSE Len(appended) = 2

\* two hints copied at scale 2 between two fixed points
C23_Witness ==
  /\ loopWithHints
  /\ input.p0 # Null /\ input.pe # Null
  /\ input.scale = 2
  /\ Len(input.hints) = 2
  /\ Len(appended) = 2
  /\ appended[1] # appended[2]
  /\ appended = transformedHints

\* OrthConnector was called and walked a route pattern
orthWalked ==
  /\ pc = "done"
  /\ connector = "OrthConnector"
  /\ orth.walked

\* the direction d is west or east
isHorizontal(d) == d \in {DIRECTION_MASK_WEST, DIRECTION_MASK_EAST}

\* 0 when the source leaves and the target is entered on the same axis,
\* 1 when on different axes
orthParity ==
  IF isHorizontal(orth.dir[1]) = isHorizontal(orth.dir[2]) THEN 0 ELSE 1

\* C24: the number of points that OrthConnector emits from its pattern
\* walk, before the duplicates are removed, is even when the source and
\* the target direction lie on the same axis and odd when they lie on
\* different axes, and the last waypoint of the walk is dropped exactly
\* when keeping it would break that rule
C24_EmitParity ==
  orthWalked =>
    /\ Len(orth.emitted) % 2 = orthParity
    /\ Len(orth.emitted) = IF orth.generated % 2 = orthParity
                             THEN orth.generated ELSE orth.generated - 1

\* a walk whose last waypoint was dropped, on a walk of more than one
\* waypoint
C24_Witness ==
  /\ orthWalked
  /\ orth.generated > 1
  /\ Len(orth.emitted) = orth.generated - 1
  /\ orthParity = 1

\* the first of the ranked directions that the mask allows, 0 if none
firstAllowed(ranked, mask) ==
  IF BitAnd(ranked[1], mask) # 0 THEN ranked[1]
  ELSE IF BitAnd(ranked[2], mask) # 0 THEN ranked[2]
  ELSE 0

\* the directions a port constraint can hold
Sides ==
  {DIRECTION_MASK_WEST, DIRECTION_MASK_NORTH, DIRECTION_MASK_EAST,
   DIRECTION_MASK_SOUTH}

\* terminal i was given its direction by the ranking: no connection point
\* on its bounds fixed it, and its port constraint allows some direction
orthRanked(i) ==
  /\ orthWalked
  /\ orth.dir0[i] = 0
  /\ orth.portConstraint[i] # DIRECTION_MASK_NONE

\* C25: in OrthConnector the direction of a terminal that no connection
\* point fixes and whose port constraint is not empty is one of west,
\* north, east, south, is allowed by the constraint, is the first ranked
\* preference that the constraint allows, and is the constraint itself
\* when that is one direction
C25_DirectionInMask ==
  \A i \in 1..2 :
    orthRanked(i) =>
      /\ orth.dir[i] \in Sides
      /\ BitAnd(orth.dir[i], orth.portConstraint[i]) = orth.dir[i]
      /\ orth.dir[i] = firstAllowed(orth.prefOrdering[i], orth.portConstraint[i])
      /\ orth.portConstraint[i] \in Sides => orth.dir[i] = orth.portConstraint[i]

\* the source took its second ranked direction, the first one being
\* outside its port constraint of two directions
C25_Witness ==
  /\ orthRanked(1)
  /\ orth.portConstraint[1] \notin Sides
  /\ orth.portConstraint[1] # DIRECTION_MASK_ALL
  /\ BitAnd(orth.prefOrdering[1][1], orth.portConstraint[1]) = 0
  /\ orth.dir[1] = orth.prefOrdering[1][2]

\* the call was OrthConnector with a connection point fixed on a terminal
\* of width 0 or of height 0
orthDegenerate ==
  /\ pc = "done"
  /\ connector = "OrthConnector"
  /\ \/ (~input.source.isNull /\ input.p0 # Null
          /\ (input.source.width = 0 \/ input.source.height = 0))
     \/ (~input.target.isNull /\ input.pe # Null
          /\ (input.target.width = 0 \/ input.target.height = 0))

\* C26: OrthConnector with a connection point fixed on a terminal of width
\* 0 or of height 0 divides by no 0 when it works out the constraint
\* fractions and writes finite coordinates only
C26_FiniteOnDegenerate ==
  orthDegenerate =>
    /\ 0 \notin orth.divisors
    /\ \A i \in 1..Len(result) :
         result[i] # Null => result[i][1] # NaN /\ result[i][2] # NaN

\* ManhattanConnector has built its obstacle map and asked it about the
\* start and end candidates
mapQueried == connector = "ManhattanConnector" /\ pc = "search" /\ search.pops = 0

\* the padded bounds of the vertices of the view, as build() computes them
paddedBoxes ==
  {moveAndExpand(getCellAbsoluteBounds(s, input), MANHATTAN_PADDING_BOX) :
     s \in input.vertices}

\* query points: every half step of the search grid over the scenes, which
\* covers the corners of the padded bounds and both sides of the bucket
\* borders
QueryPoints ==
  LET h == Half(MANHATTAN_STEP * Tenth)
  IN {Pt(i * h, j * h) : i \in -13..37, j \in -13..37}

\* C27: for the padded bounds that build() put in the map and every query
\* point p, isPointAccessible(p) is false exactly when p lies inside one of
\* the bounds, the border included
C27_BucketQueryExact ==
  mapQueried =>
    \A p \in QueryPoints :
      isPointAccessible(search.obstacleMap, p)
        <=> ~\E b \in paddedBoxes : isPointInRectangle(b, p)

\* a query point inside bounds that span several buckets, found in a bucket
\* other than the one of the origin of the bounds
C27_Witness ==
  /\ mapQueried
  /\ \E p \in QueryPoints : \E b \in paddedBoxes :
       /\ isPointInRectangle(b, p)
       /\ snapPointToGrid(p, mapGridSize) # snapPointToGrid(Pt(b.x, b.y), mapGridSize)
       /\ ~isPointAccessible(search.obstacleMap, p)
       /\ \A c \in paddedBoxes \ {b} : ~isPointInRectangle(c, p)

\* the keys of the open set that pop has closed
closedKeys(set) == {k \in DOMAIN set.hash : ~set.hash[k].open}

\* the item list holds each key once, holds the open keys and no other, and
\* is in the order of the stored values
openSetListed(set) ==
  /\ Cardinality({set.items[i] : i \in 1..Len(set.items)}) = Len(set.items)
  /\ \A i \in 1..Len(set.items) : SortedSet_isOpen(set, set.items[i])
  /\ \A k \in DOMAIN set.hash : set.hash[k].open =>
       \E i \in 1..Len(set.items) : set.items[i] = k
  /\ \A i \in 1..(Len(set.items) - 1) :
       set.hash[set.items[i]].value <= set.hash[set.items[i + 1]].value

\* a round of the main loop pops a listed key of the least stored value,
\* which was open and is closed from then on; the keys closed before stay
\* closed with their values, so add was not called for them
openSetRound ==
  pc = "search" /\ search'.pops = search.pops + 1 =>
    LET set == search.openSet
        key == Head(set.items)
    IN /\ \A i \in 1..Len(set.items) :
            set.hash[key].value <= set.hash[set.items[i]].value
       /\ SortedSet_isOpen(set, key)
       /\ SortedSet_isClose(search'.openSet, key)
       /\ closedKeys(search'.openSet) = closedKeys(set) \cup {key}
       /\ \A k \in closedKeys(set) :
            search'.openSet.hash[k].value = set.hash[k].value

\* C28: throughout a Manhattan search the item list of the open set holds
\* each key at most once, the listed keys are the open ones, a popped key is
\* closed and is not added again, add is not called for a closed key, and
\* pop returns a listed key of the least stored value
C28_OpenSetConsistent == []openSetListed(search.openSet) /\ [][openSetRound]_vars

\* a search with open keys that has closed two neighbouring grid points:
\* the one expanded later met the other as a closed neighbour
C28_Witness ==
  /\ pc = "search"
  /\ Len(search.openSet.items) >= 2
  /\ \E k1, k2 \in closedKeys(search.openSet) : \E i \in 1..Len(directions) :
       movePoint(toPointFromString(k1), directions[i].offsetX, directions[i].offsetY)
         = toPointFromString(k2)

\* the keys of the start candidates of the search
startKeys == {pointToString(search.startPoints[i]) : i \in 1..Len(search.startPoints)}

\* a search of ManhattanConnector is under way or has ended
searched == connector = "ManhattanConnector" /\ search.startCenter # Null

\* the start candidates have no parent and cost 0; the parent of a recorded
\* point is closed and has a lower cost than the point, so the parent
\* pointers form no cycle; the walk of reconstructRoute has ended at a
\* start candidate
parentsRooted ==
  searched =>
    /\ \A k \in startKeys : k \notin DOMAIN search.parents /\ search.costs[k] = 0
    /\ \A k \in DOMAIN search.parents :
         /\ SortedSet_isClose(search.openSet, pointToString(search.parents[k]))
         /\ search.costs[pointToString(search.parents[k])] < search.costs[k]
    /\ pc = "done" /\ search.found => pointToString(search.current) \in startKeys

\* a round of the main loop closes a point whose parent is closed already
\* and leaves the parent and the cost of every closed point as they are; a
\* round of the loop of reconstructRoute moves to a point of lower cost
parentsRound ==
  /\ pc = "search" /\ search'.pops = search.pops + 1 =>
       /\ LET key == Head(search.openSet.items)
          IN key \in DOMAIN search.parents =>
               SortedSet_isClose(search.openSet, pointToString(search.parents[key]))
       /\ \A k \in closedKeys(search'.openSet) :
            /\ k \in DOMAIN search.costs /\ search'.costs[k] = search.costs[k]
            /\ k \in DOMAIN search'.parents <=> k \in DOMAIN search.parents
            /\ k \in DOMAIN search.parents => search'.parents[k] = search.parents[k]
  /\ pc = "reconstruct" /\ pc' = "reconstruct" =>
       /\ search'.parents = search.parents
       /\ search.costs[pointToString(search'.current)]
            < search.costs[pointToString(search.current)]

\* C29: in a Manhattan search a start candidate never gets a parent and
\* keeps cost 0, the parent of every other recorded point was closed before
\* the point was, the parent and the cost of a closed point never change,
\* the parent map has no cycle, and the walk of reconstructRoute over the
\* parent pointers ends, at a start candidate
C29_ParentsRooted == []parentsRooted /\ [][parentsRound]_vars

\* a route of two turning points or more has been walked back to a start
\* candidate, over points whose neighbours were start candidates
C29_Witness ==
  /\ searched
  /\ pc = "done"
  /\ search.found
  /\ Len(search.route) >= 2
  /\ pointToString(search.current) \in startKeys
  /\ \E k \in DOMAIN search.parents : \E i \in 1..Len(directions) :
       movePoint(toPointFromString(k), directions[i].offsetX, directions[i].offsetY)
         \in startKeys

\* the points from p back over the parent pointers to a point without one
RECURSIVE parentPath(_)
parentPath(p) ==
  IF pointToString(p) \in DOMAIN search.parents
    THEN <<p>> \o parentPath(search.parents[pointToString(p)])
    ELSE <<p>>

\* the search of the call has accepted an end point and reconstructRoute
\* has returned
searchDone ==
  /\ pc = "done"
  /\ connector = "ManhattanConnector"
  /\ search.found

\* the found path has no turning point: every step of it, the step from
\* the centre of the source to its first point and the step from its last
\* point to the centre of the target are in one direction
straightRun ==
  LET path == parentPath(search.endPoint)
      d0 == normalizePoint(getDifferencePoint(search.endCenter, search.endPoint))
  IN /\ \A i \in 1..(Len(path) - 1) :
          normalizePoint(getDifferencePoint(path[i], path[i + 1])) = d0
     /\ normalizePoint(getDifferencePoint(path[Len(path)], search.startCenter)) = d0

\* C30: when the search of ManhattanConnector accepts an end point and the
\* found path has no turning point, reconstructRoute returns an empty route
\* and the call leaves in result what OrthConnector does on the same edge
\* state and result array; the call appends points of the search only when
\* the route has a point, and then it appends one point for each
C30_StraightRunIsOrth ==
  searchDone =>
    /\ straightRun <=> search.route = << >>
    /\ straightRun =>
         With(OrthConnector(input, result0, InitBuffers), LAMBDA out :
           result = out.res /\ threw = out.threw /\ via = out.via)
    /\ via = "ManhattanConnector" <=> Len(search.route) >= 1
    /\ via = "ManhattanConnector" => Len(appended) = Len(search.route)

\* a straight run of several steps was found and OrthConnector wrote the
\* points of the call
C30_Witness ==
  /\ searchDone
  /\ straightRun
  /\ Len(parentPath(search.endPoint)) >= 3
  /\ search.route = << >>
  /\ via = "OrthConnector"
  /\ Len(result) > Len(result0)

====
